---- MODULE Spec2Model ----
(***************************************************************************)
(* ArXiv paper catalog on a key-value store (problem2): the loader         *)
(* load_data.py fans every valid paper out into PAPER#, CATEGORY#,         *)
(* AUTHOR# and KEYWORD# items, and query_papers.py reads them back with    *)
(* five partition queries.                                                 *)
(*                                                                         *)
(* Python strings are modelled as sequences of characters (see below) so   *)
(* that tokenizing, case folding, key concatenation and the store's        *)
(* lexicographic ordering of sort keys are computed, not assumed.  A JSON  *)
(* field that is absent (None) is modelled as the empty string: the code   *)
(* reads every field through p.get(k) or ... and safe_str, which treat     *)
(* None and the empty string alike.                                        *)
(***************************************************************************)
EXTENDS Integers, Sequences, FiniteSets, TLC

(* ---------------------------- characters ------------------------------- *)

\* A character is a string.  The printable ASCII characters U+0020 .. U+007E
\* stand for themselves, except U+0060, the grave accent, which cannot be
\* written in a TLA+ string; so do tab, line feed, form feed and carriage
\* return, written "\t", "\n", "\f" and "\r".  Every other character is
\* written by its code point in upper-case hexadecimal with at least four
\* digits: "U+0000", "U+0060", "U+007F", "U+00E9", "U+FFFD", "U+1F600".
AsciiLow  == <<" ","!","\"","#","$","%","&","'","(",")","*","+",",","-",".","/","0","1","2","3","4","5","6","7","8","9",":",";","<","=",">","?","@","A","B","C","D","E","F","G","H","I","J","K","L","M","N","O","P","Q","R","S","T","U","V","W","X","Y","Z","[","\\","]","^","_">>
AsciiHigh == <<"a","b","c","d","e","f","g","h","i","j","k","l","m","n","o","p","q","r","s","t","u","v","w","x","y","z","{","|","}","~">>

\* code points of the characters that stand for themselves
OrdTable ==
    [ c \in { AsciiLow[i] : i \in 1..Len(AsciiLow) } \cup { AsciiHigh[i] : i \in 1..Len(AsciiHigh) }
            \cup { "\t", "\n", "\f", "\r" } |->
        IF c = "\t" THEN 9 ELSE IF c = "\n" THEN 10
        ELSE IF c = "\f" THEN 12 ELSE IF c = "\r" THEN 13
        ELSE IF \E i \in 1..Len(AsciiLow) : AsciiLow[i] = c
        THEN 31 + (CHOOSE i \in 1..Len(AsciiLow) : AsciiLow[i] = c)
        ELSE 96 + (CHOOSE i \in 1..Len(AsciiHigh) : AsciiHigh[i] = c) ]

UpperLetters == { AsciiLow[i] : i \in 34..59 }
LowerLetters == { AsciiHigh[i] : i \in 1..26 }
Digits       == { AsciiLow[i] : i \in 17..26 }

\* the sixteen hexadecimal digits, with upper-case and with lower-case letters
HexUpper == SubSeq(AsciiLow, 17, 26) \o SubSeq(AsciiLow, 34, 39)
HexLower == SubSeq(AsciiLow, 17, 26) \o SubSeq(AsciiHigh, 1, 6)

\* the value of one hexadecimal digit
HexVal(c) ==
    CHOOSE v \in 0..15 : HexUpper[v + 1] = c \/ HexLower[v + 1] = c

\* the number a string of hexadecimal digits writes
RECURSIVE FromHex(_)
FromHex(h) ==
    IF Len(h) = 0 THEN 0
    ELSE 16 * FromHex(SubSeq(h, 1, Len(h) - 1)) + HexVal(SubSeq(h, Len(h), Len(h)))

\* n in hexadecimal with at least width digits, as a sequence of digits
RECURSIVE hex(_, _, _)
hex(n, width, digits) ==
    IF n < 16 /\ width <= 1 THEN << digits[n + 1] >>
    ELSE Append(hex(n \div 16, width - 1, digits), digits[(n % 16) + 1])

\* the string made of the characters of s
RECURSIVE Join(_)
Join(s) == IF s = << >> THEN "" ELSE s[1] \o Join(Tail(s))

\* ord(): the code point of a character; the store orders string keys by
\* UTF-8 bytes, which is the order of the code points
Ord(c) == IF Len(c) = 1 THEN OrdTable[c] ELSE FromHex(SubSeq(c, 3, Len(c)))

\* chr()
Chr(n) ==
    IF n \in 32..95 THEN AsciiLow[n - 31]
    ELSE IF n \in 97..126 THEN AsciiHigh[n - 96]
    ELSE IF n = 9 THEN "\t" ELSE IF n = 10 THEN "\n"
    ELSE IF n = 12 THEN "\f" ELSE IF n = 13 THEN "\r"
    ELSE "U+" \o Join(hex(n, 4, HexUpper))

\* [A-Za-z]
IsLetter(c) == c \in UpperLetters \cup LowerLetters

\* [A-Za-z0-9\-]
IsWordChar(c) == IsLetter(c) \/ c \in Digits \/ c = "-"

\* Properties of characters in the Unicode database of the interpreter
\* (CPython 3.11, Unicode 14.0), as ranges << first, last >> of code points:
\*   space           str.isspace()
\*   decimal_zeros   the digit zero of every run of ten decimal digits
\*                   beyond ASCII (category Nd)
\*   nonprintable    not str.isprintable(), beyond ASCII
\*   lower           << first, last, step, delta >>: every step-th code
\*                   point from first to last has the lower-case form
\*                   code point + delta
\*   case_ignorable  Case_Ignorable
\*   cased           Cased and not Case_Ignorable
Unicode ==
    [ space |-> << <<9,13>>, <<28,32>>, <<133,133>>, <<160,160>>, <<5760,5760>>, <<8192,8202>>,
          <<8232,8233>>, <<8239,8239>>, <<8287,8287>>, <<12288,12288>> >>,
      decimal_zeros |-> { 1632, 1776, 1984, 2406, 2534, 2662, 2790, 2918, 3046, 3174,
          3302, 3430, 3558, 3664, 3792, 3872, 4160, 4240, 6112, 6160,
          6470, 6608, 6784, 6800, 6992, 7088, 7232, 7248, 42528, 43216,
          43264, 43472, 43504, 43600, 44016, 65296, 66720, 68912, 69734, 69872,
          69942, 70096, 70384, 70736, 70864, 71248, 71360, 71472, 71904, 72016,
          72784, 73040, 73120, 92768, 92864, 93008, 120782, 120792, 120802, 120812,
          120822, 123200, 123632, 125264, 130032 },
      nonprintable |-> << <<128,160>>, <<173,173>>, <<888,889>>, <<896,899>>, <<907,907>>, <<909,909>>,
          <<930,930>>, <<1328,1328>>, <<1367,1368>>, <<1419,1420>>, <<1424,1424>>, <<1480,1487>>,
          <<1515,1518>>, <<1525,1541>>, <<1564,1564>>, <<1757,1757>>, <<1806,1807>>, <<1867,1868>>,
          <<1970,1983>>, <<2043,2044>>, <<2094,2095>>, <<2111,2111>>, <<2140,2141>>, <<2143,2143>>,
          <<2155,2159>>, <<2191,2199>>, <<2274,2274>>, <<2436,2436>>, <<2445,2446>>, <<2449,2450>>,
          <<2473,2473>>, <<2481,2481>>, <<2483,2485>>, <<2490,2491>>, <<2501,2502>>, <<2505,2506>>,
          <<2511,2518>>, <<2520,2523>>, <<2526,2526>>, <<2532,2533>>, <<2559,2560>>, <<2564,2564>>,
          <<2571,2574>>, <<2577,2578>>, <<2601,2601>>, <<2609,2609>>, <<2612,2612>>, <<2615,2615>>,
          <<2618,2619>>, <<2621,2621>>, <<2627,2630>>, <<2633,2634>>, <<2638,2640>>, <<2642,2648>>,
          <<2653,2653>>, <<2655,2661>>, <<2679,2688>>, <<2692,2692>>, <<2702,2702>>, <<2706,2706>>,
          <<2729,2729>>, <<2737,2737>>, <<2740,2740>>, <<2746,2747>>, <<2758,2758>>, <<2762,2762>>,
          <<2766,2767>>, <<2769,2783>>, <<2788,2789>>, <<2802,2808>>, <<2816,2816>>, <<2820,2820>>,
          <<2829,2830>>, <<2833,2834>>, <<2857,2857>>, <<2865,2865>>, <<2868,2868>>, <<2874,2875>>,
          <<2885,2886>>, <<2889,2890>>, <<2894,2900>>, <<2904,2907>>, <<2910,2910>>, <<2916,2917>>,
          <<2936,2945>>, <<2948,2948>>, <<2955,2957>>, <<2961,2961>>, <<2966,2968>>, <<2971,2971>>,
          <<2973,2973>>, <<2976,2978>>, <<2981,2983>>, <<2987,2989>>, <<3002,3005>>, <<3011,3013>>,
          <<3017,3017>>, <<3022,3023>>, <<3025,3030>>, <<3032,3045>>, <<3067,3071>>, <<3085,3085>>,
          <<3089,3089>>, <<3113,3113>>, <<3130,3131>>, <<3141,3141>>, <<3145,3145>>, <<3150,3156>>,
          <<3159,3159>>, <<3163,3164>>, <<3166,3167>>, <<3172,3173>>, <<3184,3190>>, <<3213,3213>>,
          <<3217,3217>>, <<3241,3241>>, <<3252,3252>>, <<3258,3259>>, <<3269,3269>>, <<3273,3273>>,
          <<3278,3284>>, <<3287,3292>>, <<3295,3295>>, <<3300,3301>>, <<3312,3312>>, <<3315,3327>>,
          <<3341,3341>>, <<3345,3345>>, <<3397,3397>>, <<3401,3401>>, <<3408,3411>>, <<3428,3429>>,
          <<3456,3456>>, <<3460,3460>>, <<3479,3481>>, <<3506,3506>>, <<3516,3516>>, <<3518,3519>>,
          <<3527,3529>>, <<3531,3534>>, <<3541,3541>>, <<3543,3543>>, <<3552,3557>>, <<3568,3569>>,
          <<3573,3584>>, <<3643,3646>>, <<3676,3712>>, <<3715,3715>>, <<3717,3717>>, <<3723,3723>>,
          <<3748,3748>>, <<3750,3750>>, <<3774,3775>>, <<3781,3781>>, <<3783,3783>>, <<3790,3791>>,
          <<3802,3803>>, <<3808,3839>>, <<3912,3912>>, <<3949,3952>>, <<3992,3992>>, <<4029,4029>>,
          <<4045,4045>>, <<4059,4095>>, <<4294,4294>>, <<4296,4300>>, <<4302,4303>>, <<4681,4681>>,
          <<4686,4687>>, <<4695,4695>>, <<4697,4697>>, <<4702,4703>>, <<4745,4745>>, <<4750,4751>>,
          <<4785,4785>>, <<4790,4791>>, <<4799,4799>>, <<4801,4801>>, <<4806,4807>>, <<4823,4823>>,
          <<4881,4881>>, <<4886,4887>>, <<4955,4956>>, <<4989,4991>>, <<5018,5023>>, <<5110,5111>>,
          <<5118,5119>>, <<5760,5760>>, <<5789,5791>>, <<5881,5887>>, <<5910,5918>>, <<5943,5951>>,
          <<5972,5983>>, <<5997,5997>>, <<6001,6001>>, <<6004,6015>>, <<6110,6111>>, <<6122,6127>>,
          <<6138,6143>>, <<6158,6158>>, <<6170,6175>>, <<6265,6271>>, <<6315,6319>>, <<6390,6399>>,
          <<6431,6431>>, <<6444,6447>>, <<6460,6463>>, <<6465,6467>>, <<6510,6511>>, <<6517,6527>>,
          <<6572,6575>>, <<6602,6607>>, <<6619,6621>>, <<6684,6685>>, <<6751,6751>>, <<6781,6782>>,
          <<6794,6799>>, <<6810,6815>>, <<6830,6831>>, <<6863,6911>>, <<6989,6991>>, <<7039,7039>>,
          <<7156,7163>>, <<7224,7226>>, <<7242,7244>>, <<7305,7311>>, <<7355,7356>>, <<7368,7375>>,
          <<7419,7423>>, <<7958,7959>>, <<7966,7967>>, <<8006,8007>>, <<8014,8015>>, <<8024,8024>>,
          <<8026,8026>>, <<8028,8028>>, <<8030,8030>>, <<8062,8063>>, <<8117,8117>>, <<8133,8133>>,
          <<8148,8149>>, <<8156,8156>>, <<8176,8177>>, <<8181,8181>>, <<8191,8207>>, <<8232,8239>>,
          <<8287,8303>>, <<8306,8307>>, <<8335,8335>>, <<8349,8351>>, <<8385,8399>>, <<8433,8447>>,
          <<8588,8591>>, <<9255,9279>>, <<9291,9311>>, <<11124,11125>>, <<11158,11158>>, <<11508,11512>>,
          <<11558,11558>>, <<11560,11564>>, <<11566,11567>>, <<11624,11630>>, <<11633,11646>>, <<11671,11679>>,
          <<11687,11687>>, <<11695,11695>>, <<11703,11703>>, <<11711,11711>>, <<11719,11719>>, <<11727,11727>>,
          <<11735,11735>>, <<11743,11743>>, <<11870,11903>>, <<11930,11930>>, <<12020,12031>>, <<12246,12271>>,
          <<12284,12288>>, <<12352,12352>>, <<12439,12440>>, <<12544,12548>>, <<12592,12592>>, <<12687,12687>>,
          <<12772,12783>>, <<12831,12831>>, <<42125,42127>>, <<42183,42191>>, <<42540,42559>>, <<42744,42751>>,
          <<42955,42959>>, <<42962,42962>>, <<42964,42964>>, <<42970,42993>>, <<43053,43055>>, <<43066,43071>>,
          <<43128,43135>>, <<43206,43213>>, <<43226,43231>>, <<43348,43358>>, <<43389,43391>>, <<43470,43470>>,
          <<43482,43485>>, <<43519,43519>>, <<43575,43583>>, <<43598,43599>>, <<43610,43611>>, <<43715,43738>>,
          <<43767,43776>>, <<43783,43784>>, <<43791,43792>>, <<43799,43807>>, <<43815,43815>>, <<43823,43823>>,
          <<43884,43887>>, <<44014,44015>>, <<44026,44031>>, <<55204,55215>>, <<55239,55242>>, <<55292,63743>>,
          <<64110,64111>>, <<64218,64255>>, <<64263,64274>>, <<64280,64284>>, <<64311,64311>>, <<64317,64317>>,
          <<64319,64319>>, <<64322,64322>>, <<64325,64325>>, <<64451,64466>>, <<64912,64913>>, <<64968,64974>>,
          <<64976,65007>>, <<65050,65055>>, <<65107,65107>>, <<65127,65127>>, <<65132,65135>>, <<65141,65141>>,
          <<65277,65280>>, <<65471,65473>>, <<65480,65481>>, <<65488,65489>>, <<65496,65497>>, <<65501,65503>>,
          <<65511,65511>>, <<65519,65531>>, <<65534,65535>>, <<65548,65548>>, <<65575,65575>>, <<65595,65595>>,
          <<65598,65598>>, <<65614,65615>>, <<65630,65663>>, <<65787,65791>>, <<65795,65798>>, <<65844,65846>>,
          <<65935,65935>>, <<65949,65951>>, <<65953,65999>>, <<66046,66175>>, <<66205,66207>>, <<66257,66271>>,
          <<66300,66303>>, <<66340,66348>>, <<66379,66383>>, <<66427,66431>>, <<66462,66462>>, <<66500,66503>>,
          <<66518,66559>>, <<66718,66719>>, <<66730,66735>>, <<66772,66775>>, <<66812,66815>>, <<66856,66863>>,
          <<66916,66926>>, <<66939,66939>>, <<66955,66955>>, <<66963,66963>>, <<66966,66966>>, <<66978,66978>>,
          <<66994,66994>>, <<67002,67002>>, <<67005,67071>>, <<67383,67391>>, <<67414,67423>>, <<67432,67455>>,
          <<67462,67462>>, <<67505,67505>>, <<67515,67583>>, <<67590,67591>>, <<67593,67593>>, <<67638,67638>>,
          <<67641,67643>>, <<67645,67646>>, <<67670,67670>>, <<67743,67750>>, <<67760,67807>>, <<67827,67827>>,
          <<67830,67834>>, <<67868,67870>>, <<67898,67902>>, <<67904,67967>>, <<68024,68027>>, <<68048,68049>>,
          <<68100,68100>>, <<68103,68107>>, <<68116,68116>>, <<68120,68120>>, <<68150,68151>>, <<68155,68158>>,
          <<68169,68175>>, <<68185,68191>>, <<68256,68287>>, <<68327,68330>>, <<68343,68351>>, <<68406,68408>>,
          <<68438,68439>>, <<68467,68471>>, <<68498,68504>>, <<68509,68520>>, <<68528,68607>>, <<68681,68735>>,
          <<68787,68799>>, <<68851,68857>>, <<68904,68911>>, <<68922,69215>>, <<69247,69247>>, <<69290,69290>>,
          <<69294,69295>>, <<69298,69375>>, <<69416,69423>>, <<69466,69487>>, <<69514,69551>>, <<69580,69599>>,
          <<69623,69631>>, <<69710,69713>>, <<69750,69758>>, <<69821,69821>>, <<69827,69839>>, <<69865,69871>>,
          <<69882,69887>>, <<69941,69941>>, <<69960,69967>>, <<70007,70015>>, <<70112,70112>>, <<70133,70143>>,
          <<70162,70162>>, <<70207,70271>>, <<70279,70279>>, <<70281,70281>>, <<70286,70286>>, <<70302,70302>>,
          <<70314,70319>>, <<70379,70383>>, <<70394,70399>>, <<70404,70404>>, <<70413,70414>>, <<70417,70418>>,
          <<70441,70441>>, <<70449,70449>>, <<70452,70452>>, <<70458,70458>>, <<70469,70470>>, <<70473,70474>>,
          <<70478,70479>>, <<70481,70486>>, <<70488,70492>>, <<70500,70501>>, <<70509,70511>>, <<70517,70655>>,
          <<70748,70748>>, <<70754,70783>>, <<70856,70863>>, <<70874,71039>>, <<71094,71095>>, <<71134,71167>>,
          <<71237,71247>>, <<71258,71263>>, <<71277,71295>>, <<71354,71359>>, <<71370,71423>>, <<71451,71452>>,
          <<71468,71471>>, <<71495,71679>>, <<71740,71839>>, <<71923,71934>>, <<71943,71944>>, <<71946,71947>>,
          <<71956,71956>>, <<71959,71959>>, <<71990,71990>>, <<71993,71994>>, <<72007,72015>>, <<72026,72095>>,
          <<72104,72105>>, <<72152,72153>>, <<72165,72191>>, <<72264,72271>>, <<72355,72367>>, <<72441,72703>>,
          <<72713,72713>>, <<72759,72759>>, <<72774,72783>>, <<72813,72815>>, <<72848,72849>>, <<72872,72872>>,
          <<72887,72959>>, <<72967,72967>>, <<72970,72970>>, <<73015,73017>>, <<73019,73019>>, <<73022,73022>>,
          <<73032,73039>>, <<73050,73055>>, <<73062,73062>>, <<73065,73065>>, <<73103,73103>>, <<73106,73106>>,
          <<73113,73119>>, <<73130,73439>>, <<73465,73647>>, <<73649,73663>>, <<73714,73726>>, <<74650,74751>>,
          <<74863,74863>>, <<74869,74879>>, <<75076,77711>>, <<77811,77823>>, <<78895,82943>>, <<83527,92159>>,
          <<92729,92735>>, <<92767,92767>>, <<92778,92781>>, <<92863,92863>>, <<92874,92879>>, <<92910,92911>>,
          <<92918,92927>>, <<92998,93007>>, <<93018,93018>>, <<93026,93026>>, <<93048,93052>>, <<93072,93759>>,
          <<93851,93951>>, <<94027,94030>>, <<94088,94094>>, <<94112,94175>>, <<94181,94191>>, <<94194,94207>>,
          <<100344,100351>>, <<101590,101631>>, <<101641,110575>>, <<110580,110580>>, <<110588,110588>>, <<110591,110591>>,
          <<110883,110927>>, <<110931,110947>>, <<110952,110959>>, <<111356,113663>>, <<113771,113775>>, <<113789,113791>>,
          <<113801,113807>>, <<113818,113819>>, <<113824,118527>>, <<118574,118575>>, <<118599,118607>>, <<118724,118783>>,
          <<119030,119039>>, <<119079,119080>>, <<119155,119162>>, <<119275,119295>>, <<119366,119519>>, <<119540,119551>>,
          <<119639,119647>>, <<119673,119807>>, <<119893,119893>>, <<119965,119965>>, <<119968,119969>>, <<119971,119972>>,
          <<119975,119976>>, <<119981,119981>>, <<119994,119994>>, <<119996,119996>>, <<120004,120004>>, <<120070,120070>>,
          <<120075,120076>>, <<120085,120085>>, <<120093,120093>>, <<120122,120122>>, <<120127,120127>>, <<120133,120133>>,
          <<120135,120137>>, <<120145,120145>>, <<120486,120487>>, <<120780,120781>>, <<121484,121498>>, <<121504,121504>>,
          <<121520,122623>>, <<122655,122879>>, <<122887,122887>>, <<122905,122906>>, <<122914,122914>>, <<122917,122917>>,
          <<122923,123135>>, <<123181,123183>>, <<123198,123199>>, <<123210,123213>>, <<123216,123535>>, <<123567,123583>>,
          <<123642,123646>>, <<123648,124895>>, <<124903,124903>>, <<124908,124908>>, <<124911,124911>>, <<124927,124927>>,
          <<125125,125126>>, <<125143,125183>>, <<125260,125263>>, <<125274,125277>>, <<125280,126064>>, <<126133,126208>>,
          <<126270,126463>>, <<126468,126468>>, <<126496,126496>>, <<126499,126499>>, <<126501,126502>>, <<126504,126504>>,
          <<126515,126515>>, <<126520,126520>>, <<126522,126522>>, <<126524,126529>>, <<126531,126534>>, <<126536,126536>>,
          <<126538,126538>>, <<126540,126540>>, <<126544,126544>>, <<126547,126547>>, <<126549,126550>>, <<126552,126552>>,
          <<126554,126554>>, <<126556,126556>>, <<126558,126558>>, <<126560,126560>>, <<126563,126563>>, <<126565,126566>>,
          <<126571,126571>>, <<126579,126579>>, <<126584,126584>>, <<126589,126589>>, <<126591,126591>>, <<126602,126602>>,
          <<126620,126624>>, <<126628,126628>>, <<126634,126634>>, <<126652,126703>>, <<126706,126975>>, <<127020,127023>>,
          <<127124,127135>>, <<127151,127152>>, <<127168,127168>>, <<127184,127184>>, <<127222,127231>>, <<127406,127461>>,
          <<127491,127503>>, <<127548,127551>>, <<127561,127567>>, <<127570,127583>>, <<127590,127743>>, <<128728,128732>>,
          <<128749,128751>>, <<128765,128767>>, <<128884,128895>>, <<128985,128991>>, <<129004,129007>>, <<129009,129023>>,
          <<129036,129039>>, <<129096,129103>>, <<129114,129119>>, <<129160,129167>>, <<129198,129199>>, <<129202,129279>>,
          <<129620,129631>>, <<129646,129647>>, <<129653,129655>>, <<129661,129663>>, <<129671,129679>>, <<129709,129711>>,
          <<129723,129727>>, <<129734,129743>>, <<129754,129759>>, <<129768,129775>>, <<129783,129791>>, <<129939,129939>>,
          <<129995,130031>>, <<130042,131071>>, <<173792,173823>>, <<177977,177983>>, <<178206,178207>>, <<183970,183983>>,
          <<191457,194559>>, <<195102,196607>>, <<201547,917759>>, <<918000,1114111>> >>,
      lower |-> << <<65,90,1,32>>, <<192,214,1,32>>, <<216,222,1,32>>, <<256,302,2,1>>,
          <<306,310,2,1>>, <<313,327,2,1>>, <<330,374,2,1>>, <<376,376,1,-121>>,
          <<377,381,2,1>>, <<385,385,1,210>>, <<386,388,2,1>>, <<390,390,1,206>>,
          <<391,391,1,1>>, <<393,394,1,205>>, <<395,395,1,1>>, <<398,398,1,79>>,
          <<399,399,1,202>>, <<400,400,1,203>>, <<401,401,1,1>>, <<403,403,1,205>>,
          <<404,404,1,207>>, <<406,406,1,211>>, <<407,407,1,209>>, <<408,408,1,1>>,
          <<412,412,1,211>>, <<413,413,1,213>>, <<415,415,1,214>>, <<416,420,2,1>>,
          <<422,422,1,218>>, <<423,423,1,1>>, <<425,425,1,218>>, <<428,428,1,1>>,
          <<430,430,1,218>>, <<431,431,1,1>>, <<433,434,1,217>>, <<435,437,2,1>>,
          <<439,439,1,219>>, <<440,440,1,1>>, <<444,444,1,1>>, <<452,452,1,2>>,
          <<453,453,1,1>>, <<455,455,1,2>>, <<456,456,1,1>>, <<458,458,1,2>>,
          <<459,475,2,1>>, <<478,494,2,1>>, <<497,497,1,2>>, <<498,500,2,1>>,
          <<502,502,1,-97>>, <<503,503,1,-56>>, <<504,542,2,1>>, <<544,544,1,-130>>,
          <<546,562,2,1>>, <<570,570,1,10795>>, <<571,571,1,1>>, <<573,573,1,-163>>,
          <<574,574,1,10792>>, <<577,577,1,1>>, <<579,579,1,-195>>, <<580,580,1,69>>,
          <<581,581,1,71>>, <<582,590,2,1>>, <<880,882,2,1>>, <<886,886,1,1>>,
          <<895,895,1,116>>, <<902,902,1,38>>, <<904,906,1,37>>, <<908,908,1,64>>,
          <<910,911,1,63>>, <<913,929,1,32>>, <<931,939,1,32>>, <<975,975,1,8>>,
          <<984,1006,2,1>>, <<1012,1012,1,-60>>, <<1015,1015,1,1>>, <<1017,1017,1,-7>>,
          <<1018,1018,1,1>>, <<1021,1023,1,-130>>, <<1024,1039,1,80>>, <<1040,1071,1,32>>,
          <<1120,1152,2,1>>, <<1162,1214,2,1>>, <<1216,1216,1,15>>, <<1217,1229,2,1>>,
          <<1232,1326,2,1>>, <<1329,1366,1,48>>, <<4256,4293,1,7264>>, <<4295,4295,1,7264>>,
          <<4301,4301,1,7264>>, <<5024,5103,1,38864>>, <<5104,5109,1,8>>, <<7312,7354,1,-3008>>,
          <<7357,7359,1,-3008>>, <<7680,7828,2,1>>, <<7838,7838,1,-7615>>, <<7840,7934,2,1>>,
          <<7944,7951,1,-8>>, <<7960,7965,1,-8>>, <<7976,7983,1,-8>>, <<7992,7999,1,-8>>,
          <<8008,8013,1,-8>>, <<8025,8031,2,-8>>, <<8040,8047,1,-8>>, <<8072,8079,1,-8>>,
          <<8088,8095,1,-8>>, <<8104,8111,1,-8>>, <<8120,8121,1,-8>>, <<8122,8123,1,-74>>,
          <<8124,8124,1,-9>>, <<8136,8139,1,-86>>, <<8140,8140,1,-9>>, <<8152,8153,1,-8>>,
          <<8154,8155,1,-100>>, <<8168,8169,1,-8>>, <<8170,8171,1,-112>>, <<8172,8172,1,-7>>,
          <<8184,8185,1,-128>>, <<8186,8187,1,-126>>, <<8188,8188,1,-9>>, <<8486,8486,1,-7517>>,
          <<8490,8490,1,-8383>>, <<8491,8491,1,-8262>>, <<8498,8498,1,28>>, <<8544,8559,1,16>>,
          <<8579,8579,1,1>>, <<9398,9423,1,26>>, <<11264,11311,1,48>>, <<11360,11360,1,1>>,
          <<11362,11362,1,-10743>>, <<11363,11363,1,-3814>>, <<11364,11364,1,-10727>>, <<11367,11371,2,1>>,
          <<11373,11373,1,-10780>>, <<11374,11374,1,-10749>>, <<11375,11375,1,-10783>>, <<11376,11376,1,-10782>>,
          <<11378,11378,1,1>>, <<11381,11381,1,1>>, <<11390,11391,1,-10815>>, <<11392,11490,2,1>>,
          <<11499,11501,2,1>>, <<11506,11506,1,1>>, <<42560,42604,2,1>>, <<42624,42650,2,1>>,
          <<42786,42798,2,1>>, <<42802,42862,2,1>>, <<42873,42875,2,1>>, <<42877,42877,1,-35332>>,
          <<42878,42886,2,1>>, <<42891,42891,1,1>>, <<42893,42893,1,-42280>>, <<42896,42898,2,1>>,
          <<42902,42920,2,1>>, <<42922,42922,1,-42308>>, <<42923,42923,1,-42319>>, <<42924,42924,1,-42315>>,
          <<42925,42925,1,-42305>>, <<42926,42926,1,-42308>>, <<42928,42928,1,-42258>>, <<42929,42929,1,-42282>>,
          <<42930,42930,1,-42261>>, <<42931,42931,1,928>>, <<42932,42946,2,1>>, <<42948,42948,1,-48>>,
          <<42949,42949,1,-42307>>, <<42950,42950,1,-35384>>, <<42951,42953,2,1>>, <<42960,42960,1,1>>,
          <<42966,42968,2,1>>, <<42997,42997,1,1>>, <<65313,65338,1,32>>, <<66560,66599,1,40>>,
          <<66736,66771,1,40>>, <<66928,66938,1,39>>, <<66940,66954,1,39>>, <<66956,66962,1,39>>,
          <<66964,66965,1,39>>, <<68736,68786,1,64>>, <<71840,71871,1,32>>, <<93760,93791,1,32>>,
          <<125184,125217,1,34>> >>,
      case_ignorable |-> << <<39,39>>, <<46,46>>, <<58,58>>, <<94,94>>, <<96,96>>, <<168,168>>,
          <<173,173>>, <<175,175>>, <<180,180>>, <<183,184>>, <<688,879>>, <<884,885>>,
          <<890,890>>, <<900,901>>, <<903,903>>, <<1155,1161>>, <<1369,1369>>, <<1375,1375>>,
          <<1425,1469>>, <<1471,1471>>, <<1473,1474>>, <<1476,1477>>, <<1479,1479>>, <<1524,1524>>,
          <<1536,1541>>, <<1552,1562>>, <<1564,1564>>, <<1600,1600>>, <<1611,1631>>, <<1648,1648>>,
          <<1750,1757>>, <<1759,1768>>, <<1770,1773>>, <<1807,1807>>, <<1809,1809>>, <<1840,1866>>,
          <<1958,1968>>, <<2027,2037>>, <<2042,2042>>, <<2045,2045>>, <<2070,2093>>, <<2137,2139>>,
          <<2184,2184>>, <<2192,2193>>, <<2200,2207>>, <<2249,2306>>, <<2362,2362>>, <<2364,2364>>,
          <<2369,2376>>, <<2381,2381>>, <<2385,2391>>, <<2402,2403>>, <<2417,2417>>, <<2433,2433>>,
          <<2492,2492>>, <<2497,2500>>, <<2509,2509>>, <<2530,2531>>, <<2558,2558>>, <<2561,2562>>,
          <<2620,2620>>, <<2625,2626>>, <<2631,2632>>, <<2635,2637>>, <<2641,2641>>, <<2672,2673>>,
          <<2677,2677>>, <<2689,2690>>, <<2748,2748>>, <<2753,2757>>, <<2759,2760>>, <<2765,2765>>,
          <<2786,2787>>, <<2810,2815>>, <<2817,2817>>, <<2876,2876>>, <<2879,2879>>, <<2881,2884>>,
          <<2893,2893>>, <<2901,2902>>, <<2914,2915>>, <<2946,2946>>, <<3008,3008>>, <<3021,3021>>,
          <<3072,3072>>, <<3076,3076>>, <<3132,3132>>, <<3134,3136>>, <<3142,3144>>, <<3146,3149>>,
          <<3157,3158>>, <<3170,3171>>, <<3201,3201>>, <<3260,3260>>, <<3263,3263>>, <<3270,3270>>,
          <<3276,3277>>, <<3298,3299>>, <<3328,3329>>, <<3387,3388>>, <<3393,3396>>, <<3405,3405>>,
          <<3426,3427>>, <<3457,3457>>, <<3530,3530>>, <<3538,3540>>, <<3542,3542>>, <<3633,3633>>,
          <<3636,3642>>, <<3654,3662>>, <<3761,3761>>, <<3764,3772>>, <<3782,3782>>, <<3784,3789>>,
          <<3864,3865>>, <<3893,3893>>, <<3895,3895>>, <<3897,3897>>, <<3953,3966>>, <<3968,3972>>,
          <<3974,3975>>, <<3981,3991>>, <<3993,4028>>, <<4038,4038>>, <<4141,4144>>, <<4146,4151>>,
          <<4153,4154>>, <<4157,4158>>, <<4184,4185>>, <<4190,4192>>, <<4209,4212>>, <<4226,4226>>,
          <<4229,4230>>, <<4237,4237>>, <<4253,4253>>, <<4348,4348>>, <<4957,4959>>, <<5906,5908>>,
          <<5938,5939>>, <<5970,5971>>, <<6002,6003>>, <<6068,6069>>, <<6071,6077>>, <<6086,6086>>,
          <<6089,6099>>, <<6103,6103>>, <<6109,6109>>, <<6155,6159>>, <<6211,6211>>, <<6277,6278>>,
          <<6313,6313>>, <<6432,6434>>, <<6439,6440>>, <<6450,6450>>, <<6457,6459>>, <<6679,6680>>,
          <<6683,6683>>, <<6742,6742>>, <<6744,6750>>, <<6752,6752>>, <<6754,6754>>, <<6757,6764>>,
          <<6771,6780>>, <<6783,6783>>, <<6823,6823>>, <<6832,6862>>, <<6912,6915>>, <<6964,6964>>,
          <<6966,6970>>, <<6972,6972>>, <<6978,6978>>, <<7019,7027>>, <<7040,7041>>, <<7074,7077>>,
          <<7080,7081>>, <<7083,7085>>, <<7142,7142>>, <<7144,7145>>, <<7149,7149>>, <<7151,7153>>,
          <<7212,7219>>, <<7222,7223>>, <<7288,7293>>, <<7376,7378>>, <<7380,7392>>, <<7394,7400>>,
          <<7405,7405>>, <<7412,7412>>, <<7416,7417>>, <<7468,7530>>, <<7544,7544>>, <<7579,7679>>,
          <<8125,8125>>, <<8127,8129>>, <<8141,8143>>, <<8157,8159>>, <<8173,8175>>, <<8189,8190>>,
          <<8203,8207>>, <<8216,8217>>, <<8228,8228>>, <<8231,8231>>, <<8234,8238>>, <<8288,8292>>,
          <<8294,8303>>, <<8305,8305>>, <<8319,8319>>, <<8336,8348>>, <<8400,8432>>, <<11388,11389>>,
          <<11503,11505>>, <<11631,11631>>, <<11647,11647>>, <<11744,11775>>, <<11823,11823>>, <<12293,12293>>,
          <<12330,12333>>, <<12337,12341>>, <<12347,12347>>, <<12441,12446>>, <<12540,12542>>, <<40981,40981>>,
          <<42232,42237>>, <<42508,42508>>, <<42607,42610>>, <<42612,42621>>, <<42623,42623>>, <<42652,42655>>,
          <<42736,42737>>, <<42752,42785>>, <<42864,42864>>, <<42888,42890>>, <<42994,42996>>, <<43000,43001>>,
          <<43010,43010>>, <<43014,43014>>, <<43019,43019>>, <<43045,43046>>, <<43052,43052>>, <<43204,43205>>,
          <<43232,43249>>, <<43263,43263>>, <<43302,43309>>, <<43335,43345>>, <<43392,43394>>, <<43443,43443>>,
          <<43446,43449>>, <<43452,43453>>, <<43471,43471>>, <<43493,43494>>, <<43561,43566>>, <<43569,43570>>,
          <<43573,43574>>, <<43587,43587>>, <<43596,43596>>, <<43632,43632>>, <<43644,43644>>, <<43696,43696>>,
          <<43698,43700>>, <<43703,43704>>, <<43710,43711>>, <<43713,43713>>, <<43741,43741>>, <<43756,43757>>,
          <<43763,43764>>, <<43766,43766>>, <<43867,43871>>, <<43881,43883>>, <<44005,44005>>, <<44008,44008>>,
          <<44013,44013>>, <<64286,64286>>, <<64434,64450>>, <<65024,65039>>, <<65043,65043>>, <<65056,65071>>,
          <<65106,65106>>, <<65109,65109>>, <<65279,65279>>, <<65287,65287>>, <<65294,65294>>, <<65306,65306>>,
          <<65342,65342>>, <<65344,65344>>, <<65392,65392>>, <<65438,65439>>, <<65507,65507>>, <<65529,65531>>,
          <<66045,66045>>, <<66272,66272>>, <<66422,66426>>, <<67456,67461>>, <<67463,67504>>, <<67506,67514>>,
          <<68097,68099>>, <<68101,68102>>, <<68108,68111>>, <<68152,68154>>, <<68159,68159>>, <<68325,68326>>,
          <<68900,68903>>, <<69291,69292>>, <<69446,69456>>, <<69506,69509>>, <<69633,69633>>, <<69688,69702>>,
          <<69744,69744>>, <<69747,69748>>, <<69759,69761>>, <<69811,69814>>, <<69817,69818>>, <<69821,69821>>,
          <<69826,69826>>, <<69837,69837>>, <<69888,69890>>, <<69927,69931>>, <<69933,69940>>, <<70003,70003>>,
          <<70016,70017>>, <<70070,70078>>, <<70089,70092>>, <<70095,70095>>, <<70191,70193>>, <<70196,70196>>,
          <<70198,70199>>, <<70206,70206>>, <<70367,70367>>, <<70371,70378>>, <<70400,70401>>, <<70459,70460>>,
          <<70464,70464>>, <<70502,70508>>, <<70512,70516>>, <<70712,70719>>, <<70722,70724>>, <<70726,70726>>,
          <<70750,70750>>, <<70835,70840>>, <<70842,70842>>, <<70847,70848>>, <<70850,70851>>, <<71090,71093>>,
          <<71100,71101>>, <<71103,71104>>, <<71132,71133>>, <<71219,71226>>, <<71229,71229>>, <<71231,71232>>,
          <<71339,71339>>, <<71341,71341>>, <<71344,71349>>, <<71351,71351>>, <<71453,71455>>, <<71458,71461>>,
          <<71463,71467>>, <<71727,71735>>, <<71737,71738>>, <<71995,71996>>, <<71998,71998>>, <<72003,72003>>,
          <<72148,72151>>, <<72154,72155>>, <<72160,72160>>, <<72193,72202>>, <<72243,72248>>, <<72251,72254>>,
          <<72263,72263>>, <<72273,72278>>, <<72281,72283>>, <<72330,72342>>, <<72344,72345>>, <<72752,72758>>,
          <<72760,72765>>, <<72767,72767>>, <<72850,72871>>, <<72874,72880>>, <<72882,72883>>, <<72885,72886>>,
          <<73009,73014>>, <<73018,73018>>, <<73020,73021>>, <<73023,73029>>, <<73031,73031>>, <<73104,73105>>,
          <<73109,73109>>, <<73111,73111>>, <<73459,73460>>, <<78896,78904>>, <<92912,92916>>, <<92976,92982>>,
          <<92992,92995>>, <<94031,94031>>, <<94095,94111>>, <<94176,94177>>, <<94179,94180>>, <<110576,110579>>,
          <<110581,110587>>, <<110589,110590>>, <<113821,113822>>, <<113824,113827>>, <<118528,118573>>, <<118576,118598>>,
          <<119143,119145>>, <<119155,119170>>, <<119173,119179>>, <<119210,119213>>, <<119362,119364>>, <<121344,121398>>,
          <<121403,121452>>, <<121461,121461>>, <<121476,121476>>, <<121499,121503>>, <<121505,121519>>, <<122880,122886>>,
          <<122888,122904>>, <<122907,122913>>, <<122915,122916>>, <<122918,122922>>, <<123184,123197>>, <<123566,123566>>,
          <<123628,123631>>, <<125136,125142>>, <<125252,125259>>, <<127995,127999>>, <<917505,917505>>, <<917536,917631>>,
          <<917760,917999>> >>,
      cased |-> << <<65,90>>, <<97,122>>, <<170,170>>, <<181,181>>, <<186,186>>, <<192,214>>,
          <<216,246>>, <<248,442>>, <<444,447>>, <<452,659>>, <<661,687>>, <<880,883>>,
          <<886,887>>, <<891,893>>, <<895,895>>, <<902,902>>, <<904,906>>, <<908,908>>,
          <<910,929>>, <<931,1013>>, <<1015,1153>>, <<1162,1327>>, <<1329,1366>>, <<1376,1416>>,
          <<4256,4293>>, <<4295,4295>>, <<4301,4301>>, <<4304,4346>>, <<4349,4351>>, <<5024,5109>>,
          <<5112,5117>>, <<7296,7304>>, <<7312,7354>>, <<7357,7359>>, <<7424,7467>>, <<7531,7543>>,
          <<7545,7578>>, <<7680,7957>>, <<7960,7965>>, <<7968,8005>>, <<8008,8013>>, <<8016,8023>>,
          <<8025,8025>>, <<8027,8027>>, <<8029,8029>>, <<8031,8061>>, <<8064,8116>>, <<8118,8124>>,
          <<8126,8126>>, <<8130,8132>>, <<8134,8140>>, <<8144,8147>>, <<8150,8155>>, <<8160,8172>>,
          <<8178,8180>>, <<8182,8188>>, <<8450,8450>>, <<8455,8455>>, <<8458,8467>>, <<8469,8469>>,
          <<8473,8477>>, <<8484,8484>>, <<8486,8486>>, <<8488,8488>>, <<8490,8493>>, <<8495,8500>>,
          <<8505,8505>>, <<8508,8511>>, <<8517,8521>>, <<8526,8526>>, <<8544,8575>>, <<8579,8580>>,
          <<9398,9449>>, <<11264,11387>>, <<11390,11492>>, <<11499,11502>>, <<11506,11507>>, <<11520,11557>>,
          <<11559,11559>>, <<11565,11565>>, <<42560,42605>>, <<42624,42651>>, <<42786,42863>>, <<42865,42887>>,
          <<42891,42894>>, <<42896,42954>>, <<42960,42961>>, <<42963,42963>>, <<42965,42969>>, <<42997,42998>>,
          <<43002,43002>>, <<43824,43866>>, <<43872,43880>>, <<43888,43967>>, <<64256,64262>>, <<64275,64279>>,
          <<65313,65338>>, <<65345,65370>>, <<66560,66639>>, <<66736,66771>>, <<66776,66811>>, <<66928,66938>>,
          <<66940,66954>>, <<66956,66962>>, <<66964,66965>>, <<66967,66977>>, <<66979,66993>>, <<66995,67001>>,
          <<67003,67004>>, <<68736,68786>>, <<68800,68850>>, <<71840,71903>>, <<93760,93823>>, <<119808,119892>>,
          <<119894,119964>>, <<119966,119967>>, <<119970,119970>>, <<119973,119974>>, <<119977,119980>>, <<119982,119993>>,
          <<119995,119995>>, <<119997,120003>>, <<120005,120069>>, <<120071,120074>>, <<120077,120084>>, <<120086,120092>>,
          <<120094,120121>>, <<120123,120126>>, <<120128,120132>>, <<120134,120134>>, <<120138,120144>>, <<120146,120485>>,
          <<120488,120512>>, <<120514,120538>>, <<120540,120570>>, <<120572,120596>>, <<120598,120628>>, <<120630,120654>>,
          <<120656,120686>>, <<120688,120712>>, <<120714,120744>>, <<120746,120770>>, <<120772,120779>>, <<122624,122633>>,
          <<122635,122654>>, <<125184,125251>>, <<127280,127305>>, <<127312,127337>>, <<127344,127369>> >> ]

\* n lies in one of the ranges
InRanges(ranges, n) ==
    \E k \in 1..Len(ranges) : ranges[k][1] <= n /\ n <= ranges[k][2]

\* the lower-case form of a code point that has a one-character form
tolower(n) ==
    CHOOSE m \in
        { LET hit == { k \in 1..Len(runs) :
                        /\ runs[k][1] <= n /\ n <= runs[k][2]
                        /\ (n - runs[k][1]) % runs[k][3] = 0 }
          IN  IF hit = {} THEN n ELSE n + runs[CHOOSE k \in hit : TRUE][4]
          : runs \in { Unicode.lower } } : TRUE

\* the capital sigma at s[i] ends a word: before it, over characters that
\* case ignores, stands a cased one, and after it, over such characters,
\* none
final_sigma(s, i) ==
    \E u \in { Unicode } :
        LET ignorable(c) == InRanges(u.case_ignorable, Ord(c))
            cased(c)     == InRanges(u.cased, Ord(c))
            before == { j \in 1..(i - 1) : ~ignorable(s[j]) }
            after  == { j \in (i + 1)..Len(s) : ~ignorable(s[j]) }
        IN  /\ before # {}
            /\ cased(s[CHOOSE j \in before : \A k \in before : k <= j])
            /\ after = {} \/ ~cased(s[CHOOSE j \in after : \A k \in after : j <= k])

\* str.lower() on one ASCII character
LowerChar(c) == IF c \in UpperLetters THEN Chr(Ord(c) + 32) ELSE c

\* the sequences of ss, one after the other
RECURSIVE Flatten(_)
Flatten(ss) ==
    IF ss = << >> THEN << >>
    ELSE IF Len(ss) = 1 THEN ss[1]
    ELSE Flatten(SubSeq(ss, 1, Len(ss) \div 2))
         \o Flatten(SubSeq(ss, Len(ss) \div 2 + 1, Len(ss)))

\* str.lower(): character by character; U+03A3 depends on its place, U+0130
\* becomes two characters
lower(s) ==
    IF \A i \in 1..Len(s) : Len(s[i]) = 1
    THEN [i \in 1..Len(s) |-> LowerChar(s[i])]
    ELSE Flatten([i \in 1..Len(s) |->
            IF Len(s[i]) = 1 THEN << LowerChar(s[i]) >>
            ELSE IF Ord(s[i]) = 931
            THEN << Chr(IF final_sigma(s, i) THEN 962 ELSE 963) >>
            ELSE IF Ord(s[i]) = 304 THEN << "i", Chr(775) >>
            ELSE << Chr(tolower(Ord(s[i]))) >>])

Min(a, b) == IF a <= b THEN a ELSE b

\* s[:n]
Take(s, n) == SubSeq(s, 1, Min(n, Len(s)))

\* a < b for strings, as the store compares sort keys
StrLT(a, b) ==
    \E i \in 1..(Min(Len(a), Len(b)) + 1) :
        /\ \A j \in 1..(i - 1) : a[j] = b[j]
        /\ \/ i > Len(a) /\ i <= Len(b)
           \/ i <= Len(a) /\ i <= Len(b) /\ Ord(a[i]) < Ord(b[i])

StrLE(a, b) == a = b \/ StrLT(a, b)

(* ------------------------- keyword extraction -------------------------- *)

STOPWORDS == {
    <<"t","h","e">>, <<"a">>, <<"a","n">>,
    <<"a","n","d">>, <<"o","r">>, <<"b","u","t">>,
    <<"i","n">>, <<"o","n">>, <<"a","t">>,
    <<"t","o">>, <<"f","o","r">>, <<"o","f">>,
    <<"w","i","t","h">>, <<"b","y">>, <<"f","r","o","m">>,
    <<"u","p">>, <<"a","b","o","u","t">>, <<"i","n","t","o">>,
    <<"t","h","r","o","u","g","h">>, <<"d","u","r","i","n","g">>, <<"i","s">>,
    <<"a","r","e">>, <<"w","a","s">>, <<"w","e","r","e">>,
    <<"b","e">>, <<"b","e","e","n">>, <<"b","e","i","n","g">>,
    <<"h","a","v","e">>, <<"h","a","s">>, <<"h","a","d">>,
    <<"d","o">>, <<"d","o","e","s">>, <<"d","i","d">>,
    <<"w","i","l","l">>, <<"w","o","u","l","d">>, <<"c","o","u","l","d">>,
    <<"s","h","o","u","l","d">>, <<"m","a","y">>, <<"m","i","g","h","t">>,
    <<"c","a","n">>, <<"t","h","i","s">>, <<"t","h","a","t">>,
    <<"t","h","e","s","e">>, <<"t","h","o","s","e">>, <<"w","e">>,
    <<"o","u","r">>, <<"u","s","e">>, <<"u","s","i","n","g">>,
    <<"b","a","s","e","d">>, <<"a","p","p","r","o","a","c","h">>, <<"m","e","t","h","o","d">>,
    <<"p","a","p","e","r">>, <<"p","r","o","p","o","s","e">>, <<"p","r","o","p","o","s","e","d">>,
    <<"s","h","o","w">> }

\* last index of the maximal run of [A-Za-z0-9\-] that starts at i
RECURSIVE TokenEnd(_, _)
TokenEnd(text, i) ==
    IF i < Len(text) /\ IsWordChar(text[i + 1]) THEN TokenEnd(text, i + 1) ELSE i

\* re.findall(r"[A-Za-z][A-Za-z0-9\-]*", text), scanning from position i
RECURSIVE findall(_, _)
findall(text, i) ==
    IF i > Len(text) THEN << >>
    ELSE IF IsLetter(text[i])
         THEN LET e == TokenEnd(text, i)
              IN  << SubSeq(text, i, e) >> \o findall(text, e + 1)
         ELSE findall(text, i + 1)

tokenize(text) ==
    LET words == findall(text, 1)
    IN  [k \in 1..Len(words) |-> lower(words[k])]

\* the keys of a Counter, in insertion (first occurrence) order
RECURSIVE CounterKeys(_)
CounterKeys(list) ==
    IF list = << >> THEN << >>
    ELSE LET n    == Len(list)
             rest == CounterKeys(SubSeq(list, 1, n - 1))
         IN  IF \E j \in 1..(n - 1) : list[j] = list[n]
             THEN rest ELSE Append(rest, list[n])

\* Counter(list).items(): <<word, count>> pairs in insertion order
Counter(list) ==
    LET keys == CounterKeys(list)
    IN  [k \in 1..Len(keys) |->
            << keys[k], Cardinality({ j \in 1..Len(list) : list[j] = keys[k] }) >>]

RemoveAt(s, i) == SubSeq(s, 1, i - 1) \o SubSeq(s, i + 1, Len(s))

\* deviation: on a tie the latest entry wins
LastLargest(items) ==
    CHOOSE i \in 1..Len(items) :
        /\ \A j \in 1..Len(items) : items[j][2] <= items[i][2]
        /\ \A j \in (i + 1)..Len(items) : items[j][2] < items[i][2]

\* index picked first by heapq.nlargest: greatest count, earliest on a tie
FirstLargest(items) ==
    CHOOSE i \in 1..Len(items) :
        /\ \A j \in 1..Len(items) : items[j][2] <= items[i][2]
        /\ \A j \in 1..(i - 1) : items[j][2] < items[i][2]

\* deviation: the n least common, heapq.nsmallest
RECURSIVE least_common(_, _)
least_common(items, n) ==
    IF n <= 0 \/ items = << >> THEN << >>
    ELSE LET i == CHOOSE i \in 1..Len(items) :
                     /\ \A j \in 1..Len(items) : items[i][2] <= items[j][2]
                     /\ \A j \in 1..(i - 1) : items[i][2] < items[j][2]
         IN  << items[i] >> \o least_common(RemoveAt(items, i), n - 1)

\* Counter.most_common(n) = heapq.nlargest(n, items, key=count)
RECURSIVE most_common(_, _)
most_common(items, n) ==
    IF n <= 0 \/ items = << >> THEN << >>
    ELSE LET i == FirstLargest(items)
         IN  << items[i] >> \o most_common(RemoveAt(items, i), n - 1)

filtered_tokens(abstract) ==
    SelectSeq(tokenize(abstract), LAMBDA t : t \notin STOPWORDS /\ Len(t) >= 3)

extract_keywords(abstract, topk) ==
    LET mc == most_common(Counter(filtered_tokens(abstract)), topk)
    IN  [k \in 1..Len(mc) |-> mc[k][1]]

\* default of the topk parameter, and the value main() passes
TopK == 10

(* --------------------------- date handling ----------------------------- *)

\* str.replace("Z", "+00:00")
RECURSIVE ReplaceZ(_)
ReplaceZ(s) ==
    IF s = << >> THEN << >>
    ELSE (IF s[1] = "Z" THEN <<"+","0","0",":","0","0">> ELSE << s[1] >>) \o ReplaceZ(Tail(s))

IsDigits(s) == \A i \in 1..Len(s) : s[i] \in Digits

RECURSIVE ToInt(_)
ToInt(s) ==
    IF s = << >> THEN 0
    ELSE 10 * ToInt(SubSeq(s, 1, Len(s) - 1)) + (Ord(s[Len(s)]) - 48)

IsLeap(y) == (y % 4 = 0 /\ y % 100 /= 0) \/ y % 400 = 0

DaysIn(y, m) ==
    IF m = 2 THEN (IF IsLeap(y) THEN 29 ELSE 28)
    ELSE IF m \in {4, 6, 9, 11} THEN 30 ELSE 31

\* the range checks of the datetime constructor on the date
ValidYMD(y, m, d) == y \in 1..9999 /\ m \in 1..12 /\ d \in 1..DaysIn(y, m)

\* the character at 0-based index i, "" past the end (the terminating NUL)
at(s, i) == IF i >= 0 /\ i < Len(s) THEN s[i + 1] ELSE ""

\* parse_digits: the number written by the n characters from index pos,
\* -1 when one of them is not a digit
parse_digits(s, pos, n) ==
    IF pos + n <= Len(s) /\ IsDigits(SubSeq(s, pos + 1, pos + n))
    THEN ToInt(SubSeq(s, pos + 1, pos + n))
    ELSE 0 - 1

\* number of days before January 1st of year y
days_before_year(y) ==
    (y - 1) * 365 + ((y - 1) \div 4) - ((y - 1) \div 100) + ((y - 1) \div 400)

RECURSIVE days_before_month(_, _)
days_before_month(y, m) ==
    IF m = 1 THEN 0 ELSE days_before_month(y, m - 1) + DaysIn(y, m - 1)

\* ordinal of a date, 0001-01-01 being day 1
ymd_to_ord(y, m, d) == days_before_year(y) + days_before_month(y, m) + d

\* the year holding ordinal n, looked for from year y on
RECURSIVE year_of_ord(_, _)
year_of_ord(n, y) == IF days_before_year(y + 1) < n THEN year_of_ord(n, y + 1) ELSE y

\* month and day of the n-th day of year y, counted from month m on
RECURSIVE month_of_day(_, _, _)
month_of_day(y, m, n) ==
    IF n > DaysIn(y, m) THEN month_of_day(y, m + 1, n - DaysIn(y, m)) ELSE << m, n >>

\* ord_to_ymd for an ordinal n >= 1 that lies in year y0 - 1 or later
ord_to_ymd(n, y0) ==
    CHOOSE ymd \in
        { << y >> \o month_of_day(y, 1, n - days_before_year(y)) :
            y \in { year_of_ord(n, IF y0 > 1 THEN y0 - 1 ELSE 1) } } : TRUE

\* weekday of January 1st, Monday being 0
first_weekday(y) == (ymd_to_ord(y, 1, 1) + 6) % 7

\* ordinal of the Monday that starts ISO week 1 of year y
iso_week1_monday(y) ==
    CHOOSE monday \in
        { IF weekday > 3 THEN ymd_to_ord(y, 1, 1) - weekday + 7
          ELSE ymd_to_ord(y, 1, 1) - weekday : weekday \in { first_weekday(y) } } : TRUE

\* iso_to_ymd: the date of day d of ISO week w of year y as << TRUE, y, m, d >>,
\* << FALSE, 0, 0, 0 >> when the week or the day is out of range
iso_to_ymd(y, w, d) ==
    IF /\ y >= 1
       /\ w \in 1..52 \/ (w = 53 /\ first_weekday(y) \in (IF IsLeap(y) THEN { 2, 3 } ELSE { 3 }))
       /\ d \in 1..7
    THEN CHOOSE ymd \in
             { IF day >= 1 THEN << TRUE >> \o ord_to_ymd(day, y) ELSE << FALSE, 0, 0, 0 >> :
                 day \in { iso_week1_monday(y) + (w - 1) * 7 + (d - 1) } } : TRUE
    ELSE << FALSE, 0, 0, 0 >>

\* the first index from i on whose character is not a digit
RECURSIVE skip_digits(_, _)
skip_digits(s, i) == IF at(s, i) \in Digits THEN skip_digits(s, i + 1) ELSE i

\* _find_isoformat_datetime_separator on a string of 7 or more characters:
\* the index of the character between date and time, -1 when there is none
find_isoformat_datetime_separator(s) ==
    IF Len(s) = 7 THEN 7
    ELSE IF at(s, 4) = "-"
    THEN IF at(s, 5) = "W"
         THEN IF Len(s) > 8 /\ at(s, 8) = "-"
              THEN IF Len(s) = 9 THEN 0 - 1
                   ELSE IF Len(s) > 10 /\ at(s, 10) \in Digits THEN 8 ELSE 10
              ELSE 8
         ELSE 10
    ELSE IF at(s, 4) = "W"
    THEN CHOOSE loc \in
             { IF idx < 9 THEN idx ELSE IF idx % 2 = 0 THEN 7 ELSE 8 :
                 idx \in { skip_digits(s, 7) } } : TRUE
    ELSE 8

\* parse_isoformat_date on the first loc characters: YYYY-MM-DD, YYYYMMDD,
\* YYYY-Www[-d], YYYYWww[d]; << TRUE, y, m, d >> or << FALSE, 0, 0, 0 >>
parse_isoformat_date(s, loc) ==
    CHOOSE date \in
        { IF year < 0 THEN << FALSE, 0, 0, 0 >>
          ELSE IF at(s, 4 + sep) = "W"
          THEN IF week < 0 THEN << FALSE, 0, 0, 0 >>
               ELSE IF 7 + sep >= loc THEN iso_to_ymd(year, week, 1)
               ELSE IF sep = 1 /\ at(s, 8) # "-" THEN << FALSE, 0, 0, 0 >>
               ELSE IF weekday < 0 THEN << FALSE, 0, 0, 0 >>
               ELSE iso_to_ymd(year, week, weekday)
          ELSE IF month < 0 THEN << FALSE, 0, 0, 0 >>
               ELSE IF sep = 1 /\ at(s, 7) # "-" THEN << FALSE, 0, 0, 0 >>
               ELSE IF day < 0 THEN << FALSE, 0, 0, 0 >>
               ELSE << TRUE, year, month, day >> :
            year    \in { parse_digits(s, 0, 4) },
            sep     \in { IF at(s, 4) = "-" THEN 1 ELSE 0 },
            week    \in { parse_digits(s, 5 + (IF at(s, 4) = "-" THEN 1 ELSE 0), 2) },
            weekday \in { parse_digits(s, 7 + 2 * (IF at(s, 4) = "-" THEN 1 ELSE 0), 1) },
            month   \in { parse_digits(s, 4 + (IF at(s, 4) = "-" THEN 1 ELSE 0), 2) },
            day     \in { parse_digits(s, 6 + 2 * (IF at(s, 4) = "-" THEN 1 ELSE 0), 2) } } : TRUE

\* the loop of parse_hh_mm_ss_ff over hour, minute, second (i = 0, 1, 2) on
\* the characters from index p up to end: << how, p, << h, m, s >> >> where
\* how is "done" (returned 0), "left" (returned 1), "error", or "fraction"
\* when a fraction is to be read from p
RECURSIVE hh_mm_ss(_, _, _, _, _, _)
hh_mm_ss(s, end, i, p, has_separator, vals) ==
    IF i = 3 THEN << "fraction", p, vals >>
    ELSE CHOOSE r \in
        { IF v[i + 1] < 0 THEN << "error", p, vals >>
          ELSE IF p + 3 >= end THEN << IF c # "" THEN "left" ELSE "done", p + 3, v >>
          ELSE IF hs /\ c = ":" THEN hh_mm_ss(s, end, i + 1, p + 3, hs, v)
          ELSE IF c \in { ".", "," } THEN << "fraction", p + 3, v >>
          ELSE IF ~hs THEN hh_mm_ss(s, end, i + 1, p + 2, hs, v)
          ELSE << "error", p, v >> :
            c  \in { at(s, p + 2) },
            hs \in { IF i = 0 THEN at(s, p + 2) = ":" ELSE has_separator },
            v  \in { [vals EXCEPT ![i + 1] = parse_digits(s, p, 2)] } } : TRUE

\* parse_hh_mm_ss_ff on the characters from index start up to end:
\* << rv, h, m, s >> with rv 0 when the string ends after what was read,
\* 1 when something is left, -1 on an error; up to six digits of the
\* fraction are read, further digits skipped
parse_hh_mm_ss_ff(s, start, end) ==
    CHOOSE time \in
        { IF r[1] = "error" THEN << 0 - 1, 0, 0, 0 >>
          ELSE IF r[1] = "done" THEN << 0 >> \o r[3]
          ELSE IF r[1] = "left" THEN << 1 >> \o r[3]
          ELSE IF parse_digits(s, r[2], Min(end - r[2], 6)) < 0 THEN << 0 - 1, 0, 0, 0 >>
          ELSE << IF at(s, skip_digits(s, r[2] + Min(end - r[2], 6))) # "" THEN 1 ELSE 0 >>
               \o r[3] :
            r \in { hh_mm_ss(s, end, 0, start, TRUE, << 0, 0, 0 >>) } } : TRUE

\* the first index from i on that holds Z, + or -, the length when none does
RECURSIVE find_tzinfo(_, _)
find_tzinfo(s, i) ==
    IF i >= Len(s) THEN Len(s)
    ELSE IF s[i + 1] \in { "Z", "+", "-" } THEN i ELSE find_tzinfo(s, i + 1)

\* parse_isoformat_time on the characters from index start, with the range
\* checks the constructors make afterwards (hour < 24, minute < 60,
\* second < 60, offset below 24 hours): << TRUE, h, m, s >> or
\* << FALSE, 0, 0, 0 >>
parse_isoformat_time(s, start) ==
    CHOOSE time \in
        { IF start >= Len(s) \/ tz[2][1] < 0 THEN << FALSE, 0, 0, 0 >>
          ELSE IF tz[2][2] >= 24 \/ tz[2][3] >= 60 \/ tz[2][4] >= 60 THEN << FALSE, 0, 0, 0 >>
          ELSE IF tz[1] = Len(s)
          THEN (IF tz[2][1] = 1 THEN << FALSE, 0, 0, 0 >> ELSE << TRUE >> \o Tail(tz[2]))
          ELSE IF s[tz[1] + 1] = "Z"
          THEN (IF at(s, tz[1] + 1) # "" THEN << FALSE, 0, 0, 0 >> ELSE << TRUE >> \o Tail(tz[2]))
          ELSE IF tz[3][1] # 0 THEN << FALSE, 0, 0, 0 >>
          ELSE IF tz[3][2] * 3600 + tz[3][3] * 60 + tz[3][4] >= 86400 THEN << FALSE, 0, 0, 0 >>
          ELSE << TRUE >> \o Tail(tz[2]) :
            tz \in { << at_tz, parse_hh_mm_ss_ff(s, start, at_tz),
                        parse_hh_mm_ss_ff(s, at_tz + 1, Len(s)) >> :
                        at_tz \in { find_tzinfo(s, start) } } } : TRUE

\* datetime.fromisoformat (Python 3.11): << TRUE, y, m, d >> when the string
\* parses, << FALSE, 0, 0, 0 >> on ValueError
fromisoformat(s) ==
    IF Len(s) < 7 THEN << FALSE, 0, 0, 0 >>
    ELSE CHOOSE dt \in
        { IF loc < 0 THEN << FALSE, 0, 0, 0 >>
          ELSE CHOOSE d \in
              { IF ~date[1] THEN << FALSE, 0, 0, 0 >>
                ELSE IF ~ValidYMD(date[2], date[3], date[4]) THEN << FALSE, 0, 0, 0 >>
                ELSE IF Len(s) > loc /\ ~parse_isoformat_time(s, loc + 1)[1]
                THEN << FALSE, 0, 0, 0 >>
                ELSE date : date \in { parse_isoformat_date(s, loc) } } : TRUE :
            loc \in { find_isoformat_datetime_separator(s) } } : TRUE

\* str(n) for n >= 0
RECURSIVE IntStr(_)
IntStr(n) ==
    IF n < 10 THEN << Chr(48 + n) >>
    ELSE Append(IntStr(n \div 10), Chr(48 + (n % 10)))

\* two digits, zero padded (%m and %d)
Pad2(n) == << Chr(48 + (n \div 10)), Chr(48 + (n % 10)) >>

\* dt.strftime("%Y-%m-%d"); glibc's %Y does not pad the year
strftime(y, m, d) == IntStr(y) \o << "-" >> \o Pad2(m) \o << "-" >> \o Pad2(d)

iso_to_date(iso_str) ==
    CHOOSE date_str \in
        { IF dt[1] THEN strftime(dt[2], dt[3], dt[4]) ELSE Take(iso_str, 10) :
            dt \in { fromisoformat(ReplaceZ(iso_str)) } } : TRUE

(* --------------------------- sample records ---------------------------- *)

Paper(arxiv_id, id, title, authors, abstract, categories, published, updated, date) ==
    [ arxiv_id |-> arxiv_id, id |-> id, title |-> title, authors |-> authors,
      abstract |-> abstract, categories |-> categories,
      published |-> published, updated |-> updated, date |-> date ]

ExampleAbstract ==
    <<"g","r","a","p","h"," ","n","e","u","r","a","l"," ","n","e","t","w","o","r","k","s"," ","t","r","a","f","f","i","c"," ","g","r","a","p","h"," ","p","r","e","d","i","c","t","i","o","n"," ","t","r","a","f","f","i","c"," ","n","e","t","w","o","r","k","s"," ","g","r","a","p","h">>

\* the worked example: id alias, two authors, one category
PExample ==
    Paper(<< >>, <<"2","3","0","1",".","0","0","0","0","1">>, <<"G","r","a","p","h"," ","N","e","u","r","a","l"," ","N","e","t","w","o","r","k","s"," ","f","o","r"," ","T","r","a","f","f","i","c">>,
          << <<"A","."," ","L","e","e">>, <<"B","."," ","C","h","e","n">> >>, ExampleAbstract, << <<"c","s",".","L","G">> >>,
          <<"2","0","2","3","-","0","1","-","1","5","T","1","0",":","3","0",":","0","0","Z">>, << >>, << >>)

\* a later version of the same paper: other date, title, author, category
PRevised ==
    Paper(<<"2","3","0","1",".","0","0","0","0","1">>, << >>, <<"T","2">>, << <<"B","."," ","C","h","e","n">> >>,
          <<"t","r","a","f","f","i","c"," ","t","r","a","f","f","i","c"," ","g","r","a","p","h">>, << <<"c","s",".","A","I">> >>,
          <<"2","0","2","3","-","0","2","-","0","1">>, << >>, << >>)

\* an author and a category listed twice; date in the basic format
PRepeat ==
    Paper(<<"2","3","0","1",".","0","0","0","0","2">>, << >>, <<"T">>, << <<"A","."," ","L","e","e">>, <<"A","."," ","L","e","e">> >>,
          << >>, << <<"c","s",".","A","I">>, <<"c","s",".","A","I">> >>, <<"2","0","2","3","0","1","1","6">>, << >>, << >>)

\* an id that sorts after the range suffix; date under the updated alias
PLast ==
    Paper(<<"z","z","z","z","z","z","z","z">>, << >>, <<"T">>, << >>, <<"T","h","e"," ","G","r","a","p","h">>,
          << <<"c","s",".","L","G">> >>, << >>, <<"2","0","2","3","-","0","1","-","1","5"," ","1","0",":","3","0",":","0","0">>, << >>)

\* a date that does not parse and is kept by truncation; date alias
POdd ==
    Paper(<<"1">>, << >>, <<"T">>, << <<"B","."," ","C","h","e","n">> >>, << >>,
          << <<"c","s",".","L","G">> >>, << >>, << >>, <<"2","0","2","3"," ","J","a","n","u","a","r","y">>)

PNoId ==
    Paper(<< >>, << >>, <<"T">>, << <<"A","."," ","L","e","e">> >>, <<"g","r","a","p","h">>, << <<"c","s",".","L","G">> >>,
          <<"2","0","2","3","-","0","1","-","1","5">>, << >>, << >>)

PNoTitle ==
    Paper(<<"2">>, << >>, << >>, << <<"A","."," ","L","e","e">> >>, <<"g","r","a","p","h">>, << <<"c","s",".","L","G">> >>,
          <<"2","0","2","3","-","0","1","-","1","5">>, << >>, << >>)

PNoDate ==
    Paper(<<"3">>, << >>, <<"T">>, << <<"A","."," ","L","e","e">> >>, <<"g","r","a","p","h">>, << <<"c","s",".","L","G">> >>,
          << >>, << >>, << >>)

\* more puts than the batch writer sends in one call: 24 authors, so that the
\* 25th put of the record is made while the record is still being written
PCrowd ==
    Paper(<<"4">>, << >>, <<"T">>, [i \in 1..24 |-> << Chr(96 + i) >>], << >>,
          << <<"c","s",".","A","I">> >>, <<"2","0","2","3","-","0","3","-","0","1">>, << >>, << >>)

Papers == { PExample, PRevised, PRepeat, PLast, POdd, PNoId, PNoTitle, PNoDate, PCrowd }

(* ----------------------------- projection ------------------------------ *)

\* Python's  a or b  on strings
Or(a, b) == IF a /= << >> THEN a ELSE b

\* the locals main() reads from one input record p
rec_arxiv_id(p)      == Or(p.arxiv_id, p.id)
rec_title(p)         == p.title
rec_published_iso(p) == Or(p.published, Or(p.updated, p.date))

\* deviation: the title is not checked
passes_validation_no_title(p) ==
    rec_arxiv_id(p) /= << >> /\ rec_published_iso(p) /= << >>

\* the negation of the guard of the loop's continue
passes_validation(p) ==
    rec_arxiv_id(p) /= << >> /\ rec_title(p) /= << >> /\ rec_published_iso(p) /= << >>

\* iso_to_date(published_iso) of the sample records, computed once
SampleDates == [ p \in Papers |-> iso_to_date(rec_published_iso(p)) ]

date_str(p) ==
    IF p \in Papers THEN SampleDates[p] ELSE iso_to_date(rec_published_iso(p))

\* extract_keywords(abstract, 10) of the sample records, computed once
SampleKeywords == [ p \in Papers |-> extract_keywords(p.abstract, TopK) ]

keywords_of(p) ==
    IF p \in Papers THEN SampleKeywords[p] ELSE extract_keywords(p.abstract, TopK)

\* an attribute an item does not have is the empty string
NoAttr == << >>

\* deviation: the payload carries the normalized date
core_dated(p) ==
    [ arxiv_id   |-> rec_arxiv_id(p),
      title      |-> rec_title(p),
      authors    |-> p.authors,
      abstract   |-> p.abstract,
      categories |-> p.categories,
      keywords   |-> keywords_of(p),
      published  |-> date_str(p) ]

core(p) ==
    [ arxiv_id   |-> rec_arxiv_id(p),
      title      |-> rec_title(p),
      authors    |-> p.authors,
      abstract   |-> p.abstract,
      categories |-> p.categories,
      keywords   |-> keywords_of(p),
      published  |-> rec_published_iso(p) ]

Item(pk, sk, g1pk, g1sk, g2pk, g2sk, g3pk, g3sk, c) ==
    [ PK |-> pk, SK |-> sk,
      GSI1PK |-> g1pk, GSI1SK |-> g1sk,
      GSI2PK |-> g2pk, GSI2SK |-> g2sk,
      GSI3PK |-> g3pk, GSI3SK |-> g3sk,
      arxiv_id |-> c.arxiv_id, title |-> c.title, authors |-> c.authors,
      abstract |-> c.abstract, categories |-> c.categories,
      keywords |-> c.keywords, published |-> c.published ]

\* f"{date_str}#{arxiv_id}"
DateIdKey(p) == date_str(p) \o <<"#">> \o rec_arxiv_id(p)

\* deviation: the paper item is keyed by its date, so a reload with another
\* date adds a second PAPER# item
paper_item_dated(p) ==
    Item(<<"P","A","P","E","R","#">> \o rec_arxiv_id(p), date_str(p), NoAttr, NoAttr,
         <<"P","A","P","E","R","#">> \o rec_arxiv_id(p), date_str(p), NoAttr, NoAttr, core(p))

paper_item(p) ==
    Item(<<"P","A","P","E","R","#">> \o rec_arxiv_id(p), <<"A">>, NoAttr, NoAttr,
         <<"P","A","P","E","R","#">> \o rec_arxiv_id(p), date_str(p), NoAttr, NoAttr, core(p))

cat_item(p, cat) ==
    Item(<<"C","A","T","E","G","O","R","Y","#">> \o cat, DateIdKey(p), NoAttr, NoAttr,
         NoAttr, NoAttr, NoAttr, NoAttr, core(p))

a_item(p, author) ==
    Item(<<"A","U","T","H","O","R","#">> \o author, DateIdKey(p), <<"A","U","T","H","O","R","#">> \o author, DateIdKey(p),
         NoAttr, NoAttr, NoAttr, NoAttr, core(p))

k_item(p, kw) ==
    Item(<<"K","E","Y","W","O","R","D","#">> \o kw, DateIdKey(p), NoAttr, NoAttr,
         NoAttr, NoAttr, <<"K","E","Y","W","O","R","D","#">> \o kw, DateIdKey(p), core(p))

\* deviation: every item records its position among the puts of its record
item_writes_numbered(p) ==
    LET ws == << paper_item(p) >>
              \o [i \in 1..Len(p.categories) |-> cat_item(p, p.categories[i])]
              \o [i \in 1..Len(p.authors) |-> a_item(p, p.authors[i])]
              \o [i \in 1..Len(keywords_of(p)) |-> k_item(p, keywords_of(p)[i])]
    IN  [i \in 1..Len(ws) |-> [ws[i] EXCEPT !.title = ws[i].title \o << "#" >> \o IntStr(i)]]

\* deviation: one item per distinct author instead of one per list entry
RECURSIVE Distinct(_)
Distinct(list) ==
    IF list = << >> THEN << >>
    ELSE LET n    == Len(list)
             rest == Distinct(SubSeq(list, 1, n - 1))
         IN  IF \E j \in 1..(n - 1) : list[j] = list[n]
             THEN rest ELSE Append(rest, list[n])

item_writes_distinct_authors(p) ==
    << paper_item(p) >>
    \o [i \in 1..Len(p.categories) |-> cat_item(p, p.categories[i])]
    \o [i \in 1..Len(Distinct(p.authors)) |-> a_item(p, Distinct(p.authors)[i])]
    \o [i \in 1..Len(keywords_of(p)) |-> k_item(p, keywords_of(p)[i])]

\* the put_item calls of one loop iteration, in call order
item_writes(p) ==
    << paper_item(p) >>
    \o [i \in 1..Len(p.categories) |-> cat_item(p, p.categories[i])]
    \o [i \in 1..Len(p.authors) |-> a_item(p, p.authors[i])]
    \o [i \in 1..Len(keywords_of(p)) |-> k_item(p, keywords_of(p)[i])]

(* ------------------------------- store --------------------------------- *)

\* deviation: a put that never replaces; a write to an occupied key is kept
\* beside the stored item, under the next free sort key
put_item_additive(table, item) ==
    LET Bumped(k) == item.SK \o [i \in 1..k |-> "+"]
        Taken(k)  == \E x \in table : x.PK = item.PK /\ x.SK = Bumped(k)
        k0        == CHOOSE k \in 0..Cardinality(table) :
                        ~Taken(k) /\ \A j \in 0..(k - 1) : Taken(j)
    IN  table \cup { [item EXCEPT !.SK = Bumped(k0)] }

\* the table is a set of items, at most one per (PK, SK); a put with
\* overwrite_by_pkeys=["PK","SK"] replaces the item stored under its key
put_item(table, item) ==
    { x \in table : ~(x.PK = item.PK /\ x.SK = item.SK) } \cup { item }

\* the service applying the put requests of one batch_write_item call
RECURSIVE put_all(_, _)
put_all(table, items) ==
    IF items = << >> THEN table
    ELSE put_all(put_item(table, Head(items)), Tail(items))

\* the batch writer sends its buffer when it holds this many requests
FlushAmount == 25

\* _add_request_and_process before the flush test: with overwrite_by_pkeys
\* the buffered requests for the same (PK, SK) are dropped, then the request
\* is appended
remove_dup_pkeys(buffer, item) ==
    LET other_key(r) == ~(r.PK = item.PK /\ r.SK = item.SK)
    IN  SelectSeq(buffer, other_key)

add_request(buffer, item) == Append(remove_dup_pkeys(buffer, item), item)

\* bw.put_item: the request is buffered; once the buffer holds FlushAmount
\* requests the first FlushAmount are sent in one blocking call.  The
\* result: the buffer, the table and the requests sent (<< >> when no call
\* was made).
bw_put_item(buffer, table, item) ==
    CHOOSE bw \in
        { IF Len(added) >= FlushAmount
          THEN [ buffer |-> SubSeq(added, FlushAmount + 1, Len(added)),
                 table  |-> put_all(table, Take(added, FlushAmount)),
                 sent   |-> Take(added, FlushAmount) ]
          ELSE [ buffer |-> added, table |-> table, sent |-> << >> ]
          : added \in { add_request(buffer, item) } } : TRUE

\* deviation: a writer that is never closed; what is still buffered when the
\* loop ends is not sent
bw_exit_unsent(buffer, table) == table

\* the writer's __exit__: flush until the buffer is empty
RECURSIVE bw_exit(_, _)
bw_exit(buffer, table) ==
    IF buffer = << >> THEN table
    ELSE bw_exit(SubSeq(buffer, FlushAmount + 1, Len(buffer)),
                 put_all(table, Take(buffer, FlushAmount)))

(* ------------------------------- queries ------------------------------- *)

\* What a reader is given of the table: whether ensure_table has created it,
\* the items written so far, and two points of the service's behaviour that
\* the code leaves to the service and that are therefore taken both ways:
\* whether a BETWEEN with crossed bounds is rejected before the table is
\* looked up, and whether the item that takes a page past PageBytes is still
\* part of the page.  Reads see every write made so far.
TableView(exists, items, service) ==
    [ exists |-> exists, items |-> items, service |-> service ]

Services == [ range_checked_first : BOOLEAN, page_keeps_crossing_item : BOOLEAN ]

\* the items of a set in ascending order of the string attribute attr
RECURSIVE sorted_by(_, _)
sorted_by(S, attr) ==
    IF S = {} THEN << >>
    ELSE LET m == CHOOSE x \in S : \A y \in S : StrLE(x[attr], y[attr])
         IN  << m >> \o sorted_by(S \ {m}, attr)

Reverse(s) == [i \in 1..Len(s) |-> s[Len(s) + 1 - i]]

\* a query call reads at most 1 MB; the code asks for one page per query and
\* never follows LastEvaluatedKey
PageBytes == 1048576

\* the number of bytes of a string in UTF-8, in which the service measures
\* it: one to four for each character
utf8_len(s) ==
    LET wide == SelectSeq(s, LAMBDA c : Len(c) > 1 /\ Ord(c) >= 128)
    IN  Len(s) + Len(wide)
        + Len(SelectSeq(wide, LAMBDA c : Ord(c) >= 2048))
        + Len(SelectSeq(wide, LAMBDA c : Ord(c) >= 65536))

RECURSIVE list_size(_)
list_size(list) ==
    IF list = << >> THEN 0 ELSE 1 + utf8_len(Head(list)) + list_size(Tail(list))

\* stored size of an item: the bytes of every attribute name plus the bytes
\* of its value; a list costs 3 plus 1 per element.  An index attribute the
\* item does not have is not stored.
item_size(x) ==
    2 + utf8_len(x.PK) + 2 + utf8_len(x.SK)
    + (IF x.GSI1PK = NoAttr THEN 0 ELSE 6 + utf8_len(x.GSI1PK) + 6 + utf8_len(x.GSI1SK))
    + (IF x.GSI2PK = NoAttr THEN 0 ELSE 6 + utf8_len(x.GSI2PK) + 6 + utf8_len(x.GSI2SK))
    + (IF x.GSI3PK = NoAttr THEN 0 ELSE 6 + utf8_len(x.GSI3PK) + 6 + utf8_len(x.GSI3SK))
    + 8 + utf8_len(x.arxiv_id) + 5 + utf8_len(x.title) + 8 + utf8_len(x.abstract)
    + 9 + utf8_len(x.published)
    + 7 + 3 + list_size(x.authors) + 10 + 3 + list_size(x.categories)
    + 8 + 3 + list_size(x.keywords)

\* the stored size of a set of items
RECURSIVE SizeOf(_)
SizeOf(items) ==
    IF items = {} THEN 0
    ELSE LET x == CHOOSE y \in items : TRUE
         IN  item_size(x) + SizeOf(items \ {x})

\* the items of one page: those read, in order, before the sizes read add up
\* to more than room bytes
RECURSIVE page(_, _, _)
page(items, room, keeps_crossing_item) ==
    IF items = << >> THEN << >>
    ELSE CHOOSE p \in
           { IF size > room
             THEN (IF keeps_crossing_item THEN << Head(items) >> ELSE << >>)
             ELSE << Head(items) >> \o page(Tail(items), room - size, keeps_crossing_item)
             : size \in { item_size(Head(items)) } } : TRUE

\* a call that raised: the exception's class and str(e)
Raised(exception, message) ==
    [ query_type |-> "raised", exception |-> exception, message |-> message ]

\* str(e) of the ParamValidationError botocore raises for Limit < 1, value
\* being the number as str() writes it
LimitErrorOf(value) ==
    <<"P","a","r","a","m","e","t","e","r"," ","v","a","l","i","d","a","t","i","o","n"," ","f","a","i","l","e","d",":">> \o << "\n" >>
    \o <<"I","n","v","a","l","i","d"," ","v","a","l","u","e"," ","f","o","r"," ","p","a","r","a","m","e","t","e","r"," ","L","i","m","i","t",","," ","v","a","l","u","e",":"," ">>
    \o value
    \o <<","," ","v","a","l","i","d"," ","m","i","n"," ","v","a","l","u","e",":"," ","1">>

LimitError(n) == LimitErrorOf(IF n < 0 THEN <<"-">> \o IntStr(0 - n) ELSE IntStr(n))

\* str(e) of a ClientError of the Query operation
ClientError(code, message) ==
    <<"A","n"," ","e","r","r","o","r"," ","o","c","c","u","r","r","e","d"," ","(">> \o code \o <<")"," ","w","h","e","n"," ","c","a","l","l","i","n","g"," ","t","h","e"," ","Q","u","e","r","y"," ","o","p","e","r","a","t","i","o","n",":"," ">> \o message

TableMissing == ClientError(<<"R","e","s","o","u","r","c","e","N","o","t","F","o","u","n","d","E","x","c","e","p","t","i","o","n">>, <<"R","e","q","u","e","s","t","e","d"," ","r","e","s","o","u","r","c","e"," ","n","o","t"," ","f","o","u","n","d">>)

RangeError(lo, hi) ==
    ClientError(<<"V","a","l","i","d","a","t","i","o","n","E","x","c","e","p","t","i","o","n">>,
        <<"I","n","v","a","l","i","d"," ","K","e","y","C","o","n","d","i","t","i","o","n","E","x","p","r","e","s","s","i","o","n",":"," ","T","h","e"," ","B","E","T","W","E","E","N"," ","o","p","e","r","a","t","o","r"," ","r","e","q","u","i","r","e","s"," ","u","p","p","e","r"," ","b","o","u","n","d"," ">>
        \o <<"t","o"," ","b","e"," ","g","r","e","a","t","e","r"," ","t","h","a","n"," ","o","r"," ","e","q","u","a","l"," ","t","o"," ","l","o","w","e","r"," ","b","o","u","n","d",";"," ","l","o","w","e","r"," ","b","o","u","n","d"," ","o","p","e","r","a","n","d",":"," ">>
        \o <<"A","t","t","r","i","b","u","t","e","V","a","l","u","e",":"," ">> \o << "{" >> \o <<"S",":">> \o lo \o << "}" >>
        \o <<","," ","u","p","p","e","r"," ","b","o","u","n","d"," ","o","p","e","r","a","n","d",":"," ","A","t","t","r","i","b","u","t","e","V","a","l","u","e",":"," ">>
        \o << "{" >> \o <<"S",":">> \o hi \o << "}" >>)

\* the call is made without Limit
NoLimit == << >>

\* table.query on the base table (pkattr = "PK") or on an index; limit is
\* NoLimit or << n >> for Limit=n.  The call raises when Limit is below 1,
\* when the table does not exist and when the bounds of BETWEEN are crossed.
\* Otherwise the response holds the items whose partition attribute equals pk
\* and, with a range, whose sort attribute lies in [lo, hi], ordered by the
\* sort attribute (descending when ScanIndexForward=False), cut to one page
\* and to the first Limit items.
query(table, pkattr, skattr, pk, ranged, lo, hi, forward, limit) ==
    LET crossed == ranged /\ ~StrLE(lo, hi)
        hits == { x \in table.items :
                    /\ x[pkattr] = pk
                    /\ ranged => (StrLE(lo, x[skattr]) /\ StrLE(x[skattr], hi)) }
        asc  == sorted_by(hits, skattr)
        ord  == IF forward THEN asc ELSE Reverse(asc)
        read == page(ord, PageBytes, table.service.page_keeps_crossing_item)
    IN  IF limit # NoLimit /\ limit[1] < 1
        THEN Raised("ParamValidationError", LimitError(limit[1]))
        ELSE IF crossed /\ (table.exists \/ table.service.range_checked_first)
        THEN Raised("ClientError", RangeError(lo, hi))
        ELSE IF ~table.exists
        THEN Raised("ClientError", TableMissing)
        ELSE [ query_type |-> "response",
               Items |-> IF limit = NoLimit THEN read ELSE Take(read, limit[1]) ]

\* the parameters of the envelope; one an operation does not have is << >>
\* (limit: 0)
NoParams ==
    [ category |-> << >>, author_name |-> << >>, arxiv_id |-> << >>,
      start_date |-> << >>, end_date |-> << >>, keyword |-> << >>, limit |-> 0 ]

\* the result envelope (execution_time_ms, a wall-clock reading, is left out)
Envelope(qt, params, items) ==
    [ query_type |-> qt, parameters |-> params, results |-> items, count |-> Len(items) ]

NoResponse == [ query_type |-> "none", parameters |-> NoParams, results |-> << >>, count |-> 0 ]

query_recent_in_category(table, category, limit) ==
    LET response == query(table, "PK", "SK", <<"C","A","T","E","G","O","R","Y","#">> \o category,
                      FALSE, << >>, << >>, FALSE, << limit >>)
    IN  IF response.query_type = "raised" THEN response
        ELSE Envelope("recent_in_category",
                      [NoParams EXCEPT !.category = category, !.limit = limit],
                      response.Items)

query_papers_by_author(table, author_name) ==
    LET response == query(table, "GSI1PK", "GSI1SK", <<"A","U","T","H","O","R","#">> \o author_name,
                      FALSE, << >>, << >>, TRUE, NoLimit)
    IN  IF response.query_type = "raised" THEN response
        ELSE Envelope("papers_by_author",
                      [NoParams EXCEPT !.author_name = author_name], response.Items)

get_paper_by_id(table, arxiv_id) ==
    LET response == query(table, "GSI2PK", "GSI2SK", <<"P","A","P","E","R","#">> \o arxiv_id,
                      FALSE, << >>, << >>, TRUE, NoLimit)
    IN  IF response.query_type = "raised" THEN response
        ELSE [ query_type |-> "get_paper_by_id",
               parameters |-> [NoParams EXCEPT !.arxiv_id = arxiv_id],
               results    |-> IF response.Items /= << >> THEN << response.Items[1] >> ELSE << >>,
               count      |-> IF response.Items /= << >> THEN 1 ELSE 0 ]

\* the suffix appended to end_date in the upper bound of the range
RangeSuffix == <<"z","z","z","z","z","z","z">>

query_papers_in_date_range(table, category, start_date, end_date) ==
    LET response == query(table, "PK", "SK", <<"C","A","T","E","G","O","R","Y","#">> \o category,
                      TRUE, start_date \o <<"#">>, end_date \o <<"#">> \o RangeSuffix,
                      TRUE, NoLimit)
    IN  IF response.query_type = "raised" THEN response
        ELSE Envelope("papers_in_date_range",
                      [NoParams EXCEPT !.category = category,
                                       !.start_date = start_date, !.end_date = end_date],
                      response.Items)

\* deviation: the keyword is looked up as typed
query_papers_by_keyword_as_typed(table, keyword, limit) ==
    LET response == query(table, "GSI3PK", "GSI3SK", <<"K","E","Y","W","O","R","D","#">> \o keyword,
                      FALSE, << >>, << >>, FALSE, << limit >>)
    IN  IF response.query_type = "raised" THEN response
        ELSE Envelope("papers_by_keyword",
                      [NoParams EXCEPT !.keyword = keyword, !.limit = limit],
                      response.Items)

query_papers_by_keyword(table, keyword, limit) ==
    LET response == query(table, "GSI3PK", "GSI3SK", <<"K","E","Y","W","O","R","D","#">> \o lower(keyword),
                      FALSE, << >>, << >>, FALSE, << limit >>)
    IN  IF response.query_type = "raised" THEN response
        ELSE Envelope("papers_by_keyword",
                      [NoParams EXCEPT !.keyword = keyword, !.limit = limit],
                      response.Items)

(* ------------------------------- inputs -------------------------------- *)

\* number of records in the file of the first load, which seeds the store
MaxPre == 1
\* number of records in the file of the later loads
MaxInput == 2
\* number of load runs
MaxRuns == 3
\* greatest Limit of a query
MaxLimit == 2

InputsUpTo(n) == UNION { [1..k -> Papers] : k \in 0..n }

QueryCategories == { <<"c","s",".","L","G">>, <<"c","s",".","A","I">> }
QueryAuthors    == { <<"A","."," ","L","e","e">>, <<"B","."," ","C","h","e","n">> }
QueryIds        == { <<"2","3","0","1",".","0","0","0","0","1">>, <<"z","z","z","z","z","z","z","z">>, <<"2">> }
QueryStarts     == { <<"2","0","2","2","-","1","2","-","3","1">>, <<"2","0","2","3","-","0","1","-","1","5">>, <<"2","0","2","3","-","0","2","-","0","1">> }
QueryEnds       == { <<"2","0","2","3">>, <<"2","0","2","3","-","0","1","-","1","5">>, <<"2","0","2","3","-","0","2","-","0","1">> }
QueryKeywords   == { <<"g","r","a","p","h">>, <<"G","r","a","p","h">>, <<"t","r","a","f","f","i","c">> }

\* abstracts of the keyword extraction check: words joined by one space
KwWords == << <<"g","r","a","p","h">>, <<"G","r","a","p","h">>, <<"t","h","e">>, <<"n","e","t">>, <<"o","f">>, <<"x","-","1">>, <<"3","d",";","N","e","t">> >>
\* number of words in such an abstract
MaxWords == 4
\* greatest topk tried
MaxTopK == 2

RECURSIVE JoinWords(_)
JoinWords(ws) ==
    IF ws = << >> THEN << >>
    ELSE IF Len(ws) = 1 THEN KwWords[ws[1]]
    ELSE KwWords[ws[1]] \o <<" ">> \o JoinWords(Tail(ws))

KwAbstracts == { JoinWords(ws) : ws \in UNION { [1..k -> 1..Len(KwWords)] : k \in 0..MaxWords } }

(* -------------------------------- state -------------------------------- *)

VARIABLES
    store,          \* the items of the table
    buffer,         \* the batch writer's buffer of put requests
    input,          \* papers, the list read from the input file
    pos,            \* number of records of input the loop has consumed
    call,           \* number of put_item calls made for the current record
    total_papers,   \* main()'s counter of loaded papers
    stats,          \* main()'s per-kind item counters
    last_writes,    \* the put_item calls of the loop iteration, so far
    phase,          \* "idle", "loading", "done", "failed", "crashed"
    run,            \* number of load runs started
    report,         \* what the finished run printed
    args,           \* the command line of the last query command
    resp,           \* what that command's query function returned or raised
    history,        \* per finished run: its input and the table it left
    attempt,        \* the load being attempted: the table before its first
                    \* try, how often it was interrupted, the table left then
    http,           \* the last HTTP request and its response
    kw_abstract,    \* argument of extract_keywords
    kw_topk,        \* argument of extract_keywords
    kw_result       \* its return value

vars == << store, buffer, input, pos, call, total_papers, stats, last_writes, phase,
           run, report, args, resp, history, attempt, http,
           kw_abstract, kw_topk, kw_result >>

loadVars == << buffer, input, pos, call, total_papers, stats, last_writes, phase, run,
               report, history, attempt >>
kwVars   == << kw_abstract, kw_topk, kw_result >>

ZeroStats == [ paper_id_items |-> 0, category_items |-> 0,
               author_items |-> 0, keyword_items |-> 0 ]

NoReport == [ loaded |-> 0, items |-> 0, factor |-> << 0, 1 >> ]

\* kw_result before the call; no token is a lone hyphen
NotCalled == << << "-" >> >>

NoAttempt == [ before |-> {}, interrupts |-> 0, partial |-> {} ]

\* no query command run since the loader's last step
NoArgs == [ cmd |-> "none", category |-> << >>, author_name |-> << >>,
            arxiv_id |-> << >>, start_date |-> << >>, end_date |-> << >>,
            keyword |-> << >>, limit |-> 0 ]

\* no request served since the loader's last step
NoHttp ==
    [ request  |-> [ path |-> << >>, category |-> << >>, start |-> << >>,
                     end |-> << >>, limit |-> << >> ],
      response |-> [ status |-> 0, body |-> [ error |-> << >> ] ] ]

\* ensure_table creates the table when the first load starts
TableExists == run > 0

\* the table as a reader finds it
Table(service) == TableView(TableExists, store, service)

Init ==
    /\ store = {}
    /\ buffer = << >>
    /\ input = << >>
    /\ pos = 0
    /\ call = 0
    /\ total_papers = 0
    /\ stats = ZeroStats
    /\ last_writes = << >>
    /\ phase = "idle"
    /\ run = 0
    /\ report = NoReport
    /\ args = NoArgs
    /\ resp = NoResponse
    /\ history = << >>
    /\ attempt = NoAttempt
    /\ http = NoHttp
    /\ kw_abstract = << >>
    /\ kw_topk = 0
    /\ kw_result = << >>

(* ------------------------------- loader -------------------------------- *)

\* What the readers (query_papers.py, api_server.py) last returned is kept
\* until the loader's next step, so that it is always an answer to the table
\* as it stands.
Unobserved ==
    /\ args' = NoArgs
    /\ resp' = NoResponse
    /\ http' = NoHttp

\* main() up to the loop on the file f: ensure_table, the file is read, the
\* counters start at zero and the batch writer is opened
StartLoadOf(f) ==
    /\ phase # "loading"
    /\ run < MaxRuns
    /\ input' = f
    /\ attempt' = IF phase = "crashed" /\ f = input
                   THEN attempt
                   ELSE [ before |-> store, interrupts |-> 0, partial |-> {} ]
    /\ buffer' = << >>
    /\ pos' = 0
    /\ call' = 0
    /\ total_papers' = 0
    /\ stats' = ZeroStats
    /\ last_writes' = << >>
    /\ phase' = "loading"
    /\ run' = run + 1
    /\ report' = NoReport
    /\ Unobserved
    /\ UNCHANGED << store, history, kwVars >>

\* a load of the sample records: the first run loads a file of at most MaxPre
\* records, the second any file of at most MaxInput records; the runs after
\* that, and the run after an interrupted one, load the same file again
StartLoad ==
    \E f \in (IF run = 0 THEN InputsUpTo(MaxPre)
              ELSE IF run = 1 /\ phase # "crashed" THEN InputsUpTo(MaxInput)
              ELSE { input }) :
        StartLoadOf(f)

\* the counter the loop increments after the i-th put_item call of record p
put_kind(p, i) ==
    IF i = 1 THEN "paper_id_items"
    ELSE IF i <= 1 + Len(p.categories) THEN "category_items"
    ELSE IF i <= 1 + Len(p.categories) + Len(p.authors) THEN "author_items"
    ELSE "keyword_items"

\* the counters after the put_item calls i+1 .. j of record p
RECURSIVE count_puts(_, _, _, _)
count_puts(counters, p, i, j) ==
    IF i >= j THEN counters
    ELSE count_puts([counters EXCEPT ![put_kind(p, i + 1)] = @ + 1], p, i + 1, j)

\* the loop body of one record from its put_item call i+1 on, up to the
\* first call that sends the buffer or, when none does, to the record's last
\* call: the buffer, the table, the number of calls made and the requests
\* sent
RECURSIVE put_until_sent(_, _, _, _)
put_until_sent(buf, table, ws, i) ==
    IF i = Len(ws) THEN [ buffer |-> buf, table |-> table, call |-> i, sent |-> << >> ]
    ELSE CHOOSE r \in
             { IF bw.sent # << >>
               THEN [ buffer |-> bw.buffer, table |-> bw.table, call |-> i + 1,
                      sent |-> bw.sent ]
               ELSE put_until_sent(bw.buffer, table, ws, i + 1)
               : bw \in { bw_put_item(buf, table, ws[i + 1]) } } : TRUE

\* deviation: a record whose PAPER# item is already stored is taken as loaded
\* and not written again
LoadRecord_resuming ==
    /\ phase = "loading"
    /\ pos < Len(input)
    /\ \E p \in { input[pos + 1] } :
       \E ws \in { item_writes(p) } :
       \E bw \in { put_until_sent(buffer, store, ws, call) } :
           IF ~passes_validation(p)
              \/ (call = 0 /\ \E x \in store : x.PK = paper_item(p).PK /\ x.SK = paper_item(p).SK)
           THEN /\ last_writes' = << >>
                /\ pos' = pos + 1
                /\ UNCHANGED << store, buffer, call, stats, total_papers >>
           ELSE /\ buffer' = bw.buffer
                /\ store' = bw.table
                /\ last_writes' = (IF call = 0 THEN << >> ELSE last_writes)
                                  \o SubSeq(ws, call + 1, bw.call)
                /\ stats' = count_puts(stats, p, call, bw.call)
                /\ IF bw.call = Len(ws)
                   THEN pos' = pos + 1 /\ call' = 0 /\ total_papers' = total_papers + 1
                   ELSE call' = bw.call /\ UNCHANGED << pos, total_papers >>
    /\ Unobserved
    /\ UNCHANGED << input, phase, run, report, history, attempt, kwVars >>

\* the loop  for p in papers  from where it stands up to its next store call
\* or to the end of the iteration: a record that fails validation is passed
\* over (continue); of a valid one the puts are made, each buffered by the
\* batch writer and counted, until one of them fills the buffer and sends it
\* in a blocking batch_write_item call, or until the record's last put,
\* after which the paper is counted.  The table changes only by what is
\* sent, so a record's items reach it later than the record's iteration, and
\* possibly in two parts.
LoadRecord ==
    /\ phase = "loading"
    /\ pos < Len(input)
    /\ \E p \in { input[pos + 1] } :
       \E ws \in { item_writes(p) } :
       \E bw \in { put_until_sent(buffer, store, ws, call) } :
           IF ~passes_validation(p)
           THEN /\ last_writes' = << >>
                /\ pos' = pos + 1
                /\ UNCHANGED << store, buffer, call, stats, total_papers >>
           ELSE /\ buffer' = bw.buffer
                /\ store' = bw.table
                /\ last_writes' = (IF call = 0 THEN << >> ELSE last_writes)
                                  \o SubSeq(ws, call + 1, bw.call)
                /\ stats' = count_puts(stats, p, call, bw.call)
                /\ IF bw.call = Len(ws)
                   THEN pos' = pos + 1 /\ call' = 0 /\ total_papers' = total_papers + 1
                   ELSE call' = bw.call /\ UNCHANGED << pos, total_papers >>
    /\ Unobserved
    /\ UNCHANGED << input, phase, run, report, history, attempt, kwVars >>

\* main() from the end of the loop: the with block ends and the writer sends
\* what is buffered; then the totals, the factor (a fraction, 0 when nothing
\* was loaded) and the storage breakdown, whose per-paper averages divide
\* by total_papers and raise ZeroDivisionError when it is 0
Finish ==
    /\ phase = "loading"
    /\ pos = Len(input)
    /\ store' = bw_exit(buffer, store)
    /\ buffer' = << >>
    /\ LET total_items == stats.paper_id_items + stats.category_items
                          + stats.author_items + stats.keyword_items
       IN  report' = [ loaded |-> total_papers,
                       items  |-> total_items,
                       factor |-> IF total_papers # 0
                                  THEN << total_items, total_papers >>
                                  ELSE << 0, 1 >> ]
    /\ phase' = IF total_papers = 0 THEN "failed" ELSE "done"
    /\ history' = Append(history, [ input |-> input, store |-> store' ])
    /\ Unobserved
    /\ UNCHANGED << input, pos, call, total_papers, stats, last_writes, run,
                    attempt, kwVars >>

\* load_data.py, run up to MaxRuns times
Next ==
    \/ StartLoad
    \/ LoadRecord
    \/ Finish

Spec == Init /\ [][Next]_vars

(* --------------------------- query commands ---------------------------- *)

\* query_papers.py is a process of its own and runs at any time, also while
\* a load is under way; one command is observed per step of the loader
CanQuery == resp = NoResponse

\* --limit when the command line does not give it
DefaultLimit == 20

\* values of --limit (type=int): small ones, 0 and -1 among them, and the
\* default
QueryLimits == ((0 - 1)..MaxLimit) \cup { DefaultLimit }

\* the services a reader can tell apart on the table as it stands: the order
\* of the two checks shows only while there is no table, the treatment of
\* the item that passes the page limit only when the table exceeds a page
ObservableServices ==
    LET one_page == SizeOf(store) <= PageBytes
    IN  { sv \in Services :
            /\ TableExists => sv.range_checked_first
            /\ one_page => sv.page_keeps_crossing_item }

Recent ==
    /\ CanQuery
    /\ \E c \in QueryCategories, n \in QueryLimits, sv \in ObservableServices :
          /\ args' = [NoArgs EXCEPT !.cmd = "recent", !.category = c, !.limit = n]
          /\ resp' = query_recent_in_category(Table(sv), c, n)
    /\ UNCHANGED << store, loadVars, http, kwVars >>

ByAuthor ==
    /\ CanQuery
    /\ \E a \in QueryAuthors, sv \in ObservableServices :
          /\ args' = [NoArgs EXCEPT !.cmd = "author", !.author_name = a]
          /\ resp' = query_papers_by_author(Table(sv), a)
    /\ UNCHANGED << store, loadVars, http, kwVars >>

GetById ==
    /\ CanQuery
    /\ \E i \in QueryIds, sv \in ObservableServices :
          /\ args' = [NoArgs EXCEPT !.cmd = "get", !.arxiv_id = i]
          /\ resp' = get_paper_by_id(Table(sv), i)
    /\ UNCHANGED << store, loadVars, http, kwVars >>

DateRange ==
    /\ CanQuery
    /\ \E c \in QueryCategories, s \in QueryStarts, e \in QueryEnds, sv \in ObservableServices :
          /\ args' = [NoArgs EXCEPT !.cmd = "daterange", !.category = c,
                                    !.start_date = s, !.end_date = e]
          /\ resp' = query_papers_in_date_range(Table(sv), c, s, e)
    /\ UNCHANGED << store, loadVars, http, kwVars >>

ByKeyword ==
    /\ CanQuery
    /\ \E k \in QueryKeywords, n \in QueryLimits, sv \in ObservableServices :
          /\ args' = [NoArgs EXCEPT !.cmd = "keyword", !.keyword = k, !.limit = n]
          /\ resp' = query_papers_by_keyword(Table(sv), k, n)
    /\ UNCHANGED << store, loadVars, http, kwVars >>

\* load_data.py with query_papers.py daterange
NextRange ==
    \/ StartLoad
    \/ LoadRecord
    \/ Finish
    \/ DateRange

SpecRange == Init /\ [][NextRange]_vars

\* load_data.py with query_papers.py author and query_papers.py get
NextLookup ==
    \/ StartLoad
    \/ LoadRecord
    \/ Finish
    \/ ByAuthor
    \/ GetById

SpecLookup == Init /\ [][NextLookup]_vars

\* load_data.py with query_papers.py keyword
NextKeyword ==
    \/ StartLoad
    \/ LoadRecord
    \/ Finish
    \/ ByKeyword

SpecKeyword == Init /\ [][NextKeyword]_vars

(* ---------------------------- large records ---------------------------- *)

\* number of characters in the title of a large record: an item with such a
\* title stays below the 400 KB an item may have, and three of them do not
\* fit one page
LargeTitle == 390000

\* number of large records
MaxLarge == 4

\* the first record has a title a quarter as long, so the items of the first
\* three records of a category fit one page and those of four do not
LargePaper(i) ==
    Paper(<<"L">> \o IntStr(i), << >>,
          [k \in 1..(IF i = 1 THEN LargeTitle \div 4 ELSE LargeTitle) |-> "x"],
          << >>, << >>, << <<"c","s",".","L","G">> >>, <<"2","0","2","3","-","0","1","-","0">> \o IntStr(i), << >>, << >>)

\* the files of large records: the first k of them, in order
LargeInputs == { [i \in 1..k |-> LargePaper(i)] : k \in 0..MaxLarge }

\* one load of a file of large records
StartLoadLarge ==
    /\ run = 0
    /\ \E f \in LargeInputs : StartLoadOf(f)

\* load_data.py on large records with query_papers.py recent
NextLarge ==
    \/ StartLoadLarge
    \/ LoadRecord
    \/ Finish
    \/ Recent

SpecLarge == Init /\ [][NextLarge]_vars

(* ------------------------- interrupted loads --------------------------- *)

\* the buffer after the put_item calls i+1 .. j of the record's puts ws,
\* none of which fills it
RECURSIVE buffered(_, _, _, _)
buffered(buf, ws, i, j) ==
    IF i >= j THEN buf ELSE buffered(add_request(buf, ws[i + 1]), ws, i + 1, j)

\* the puts of the record the loop stands in, << >> after the loop and at a
\* record that fails validation
current_writes ==
    IF pos < Len(input) /\ passes_validation(input[pos + 1])
    THEN item_writes(input[pos + 1]) ELSE << >>

\* a batch_write_item call of n requests that does not complete (the
\* process is killed or interrupted while it waits, the connection or the
\* service fails): the service applies the puts of a call one by one and in
\* no given order, so any of them may have been applied.  An outcome is the
\* set of the positions in the batch of the requests applied; the whole
\* batch and nothing of it are among them.
CutOutcomes(n) == SUBSET (1..n)

\* the table after the requests of a batch at the positions applied; the
\* requests of a batch have distinct keys (overwrite_by_pkeys)
put_some(table, batch, applied) ==
    put_all(table, SelectSeq(batch, LAMBDA r : \E i \in applied : batch[i] = r))

\* the writer's __exit__ when it may not get to the end: n of its calls
\* complete and the next one is cut and raises, or the process is killed;
\* the rest of the buffer is lost.  That all calls complete is the case of a
\* last call with nothing left out.
ExitCut(buf, table) ==
    \E n \in 0..(IF buf = << >> THEN 0 ELSE (Len(buf) - 1) \div FlushAmount) :
    \E sent \in { put_all(table, Take(buf, n * FlushAmount)) } :
    \E batch \in { SubSeq(buf, n * FlushAmount + 1, Min(Len(buf), (n + 1) * FlushAmount)) } :
    \E applied \in CutOutcomes(Len(batch)) :
        store' = put_some(sent, batch, applied)

\* the load ends inside the with block and reports nothing.
\*  - An exception in the loop (an interrupt, a record that is no object)
\*    after j more puts of the record leaves through the writer's exit,
\*    which sends what is buffered: the puts made so far, of the current
\*    record maybe only some.  The calls of the exit can be cut like any
\*    other.
\*  - A store call made in the loop is cut; the exception leaves through
\*    the writer's exit, which sends what was buffered beside the batch.
\*  - A killed process loses what is buffered (the case of a cut call of
\*    which nothing is applied).
\* Interruptions are followed up to the last run but one, so that a reload
\* can come after.
Crash ==
    /\ phase = "loading"
    /\ run < MaxRuns
    /\ \E ws \in { current_writes } :
       \E stop \in { put_until_sent(buffer, store, ws, call) } :
          \/ \E j \in call..(IF stop.sent = << >> THEN stop.call ELSE stop.call - 1) :
             \E buf \in { buffered(buffer, ws, call, j) } :
                ExitCut(buf, store)
          \/ /\ stop.sent # << >>
             /\ \E applied \in CutOutcomes(Len(stop.sent)) :
                \E left \in { put_some(store, stop.sent, applied) } :
                   ExitCut(stop.buffer, left)
    /\ buffer' = << >>
    /\ phase' = "crashed"
    /\ attempt' = [ attempt EXCEPT !.interrupts = @ + 1, !.partial = store' ]
    /\ Unobserved
    /\ UNCHANGED << input, pos, call, total_papers, stats, last_writes, run, report,
                    history, kwVars >>

\* the records of the interrupted loads: the worked example, its revision,
\* a record with repeated entries, whose later put of a key replaces the
\* buffered one, and a record that fails validation
CrashPapers == { PExample, PRevised, PRepeat, PNoTitle }

\* the files of the interrupted loads
CrashInputs(n) == UNION { [1..k -> CrashPapers] : k \in 0..n }

\* a load that may be interrupted: the first run seeds the table, with
\* nothing or with the revision, whose PAPER# item has the key of the
\* worked example's; the second run loads a file of at most MaxInput
\* records; the runs after that, and the run after an interrupted one, load
\* the same file again.  These files buffer at most 13 requests, so their
\* calls are those of the writer's exit; a file that has a call sent in the
\* loop buffers 25 and a cut call of 25 requests has 2^25 outcomes.
StartLoadCrash ==
    \E f \in (IF run = 0 THEN { << >>, << PRevised >> }
              ELSE IF run = 1 /\ phase # "crashed"
                   THEN CrashInputs(MaxInput)
              ELSE { input }) :
        StartLoadOf(f)

NextCrash ==
    \/ StartLoadCrash
    \/ LoadRecord
    \/ Finish
    \/ Crash

SpecCrash == Init /\ [][NextCrash]_vars

(* --------------------------- http front end ---------------------------- *)

\* str.startswith
StartsWith(s, prefix) ==
    Len(s) >= Len(prefix) /\ SubSeq(s, 1, Len(prefix)) = prefix

\* str.count of one character
count(s, c) == Cardinality({ i \in 1..Len(s) : s[i] = c })

\* str.find: the first position at which sep occurs in s, 0 when it does not
find(s, sep) ==
    LET found == { i \in 1..(Len(s) - Len(sep) + 1) : SubSeq(s, i, i + Len(sep) - 1) = sep }
    IN  IF found = {} THEN 0 ELSE CHOOSE i \in found : \A j \in found : i <= j

\* s.split(sep)[1] for an s that contains sep: the text between the first
\* occurrence of sep and the next one, or the end
split_second(s, sep) ==
    LET rest == SubSeq(s, find(s, sep) + Len(sep), Len(s))
    IN  IF find(rest, sep) = 0 THEN rest ELSE SubSeq(rest, 1, find(rest, sep) - 1)

HexDigits == { HexUpper[i] : i \in 1..16 } \cup { HexLower[i] : i \in 1..16 }

\* unquote_to_bytes on the ASCII characters of s: %XX with two hexadecimal
\* digits is the byte XX, every other character its own byte.  unquote
\* decodes each run of ASCII characters by itself and leaves the characters
\* between the runs as they are; such a character c is written 256 + ord(c)
\* here, which no decoding takes for a byte.
RECURSIVE unquote_to_bytes(_)
unquote_to_bytes(s) ==
    IF s = << >> THEN << >>
    ELSE IF /\ s[1] = "%" /\ Len(s) >= 3
            /\ s[2] \in HexDigits /\ s[3] \in HexDigits
         THEN << 16 * HexVal(s[2]) + HexVal(s[3]) >> \o unquote_to_bytes(SubSeq(s, 4, Len(s)))
         ELSE << IF Ord(s[1]) < 128 THEN Ord(s[1]) ELSE 256 + Ord(s[1]) >>
              \o unquote_to_bytes(Tail(s))

\* bytes.decode("utf-8", "replace"): a well-formed sequence of one to four
\* bytes is its character; otherwise the longest start of a well-formed
\* sequence, or the one byte that starts none, is U+FFFD
RECURSIVE decode(_)
decode(b) ==
    IF b = << >> THEN << >>
    ELSE LET b0 == b[1]
             byte(k) == IF k <= Len(b) THEN b[k] ELSE 0 - 1
             need == IF b0 \in 194..223 THEN 2
                     ELSE IF b0 \in 224..239 THEN 3
                     ELSE IF b0 \in 240..244 THEN 4 ELSE 1
             lo == IF b0 = 224 THEN 160 ELSE IF b0 = 240 THEN 144 ELSE 128
             hi == IF b0 = 237 THEN 159 ELSE IF b0 = 244 THEN 143 ELSE 191
             taken == IF need = 1 \/ byte(2) \notin lo..hi THEN 1
                      ELSE IF need = 2 \/ byte(3) \notin 128..191 THEN 2
                      ELSE IF need = 3 \/ byte(4) \notin 128..191 THEN 3
                      ELSE 4
             code == IF taken < need THEN 65533
                     ELSE IF need = 2 THEN (b0 - 192) * 64 + (b[2] - 128)
                     ELSE IF need = 3
                     THEN (b0 - 224) * 4096 + (b[2] - 128) * 64 + (b[3] - 128)
                     ELSE IF need = 4
                     THEN (b0 - 240) * 262144 + (b[2] - 128) * 4096
                          + (b[3] - 128) * 64 + (b[4] - 128)
                     ELSE IF b0 >= 256 THEN b0 - 256
                     ELSE IF b0 < 128 THEN b0 ELSE 65533
         IN  << Chr(code) >> \o decode(SubSeq(b, taken + 1, Len(b)))

\* urllib.parse.unquote(s), encoding utf-8, errors replace
unquote(s) ==
    IF \A i \in 1..Len(s) : s[i] # "%" THEN s ELSE decode(unquote_to_bytes(s))

\* The text int() reads (_PyUnicode_TransformDecimalAndSpaceToASCII): a text
\* of ASCII characters is taken as it is.  Of any other text a character
\* below U+007F is kept, white space is a blank and a decimal digit its
\* ASCII digit; at the first character that is none of these a question mark
\* is written and the text ends.
ascii_decimal(s) ==
    IF \A i \in 1..Len(s) : Ord(s[i]) < 128 THEN s
    ELSE CHOOSE text \in
           { LET zero(n) == { z \in u.decimal_zeros : n \in z..(z + 9) }
                 ch(n) == IF InRanges(u.space, n) THEN " "
                          ELSE IF zero(n) # {}
                          THEN Chr(48 + n - (CHOOSE z \in zero(n) : TRUE))
                          ELSE "?"
                 read == [ i \in 1..Len(s) |->
                             IF Ord(s[i]) < 127 THEN s[i] ELSE ch(Ord(s[i])) ]
                 ends == { i \in 1..Len(s) : Ord(s[i]) >= 127 /\ read[i] = "?" }
             IN  IF ends = {} THEN read
                 ELSE SubSeq(read, 1, CHOOSE i \in ends : \A k \in ends : i <= k)
             : u \in { Unicode } } : TRUE

\* the first position from i on at which a holds none of chars, Len(a) + 1
\* when there is none
skip(a, i, chars) ==
    CHOOSE k \in i..(Len(a) + 1) :
        /\ k = Len(a) + 1 \/ a[k] \notin chars
        /\ \A j \in i..(k - 1) : a[j] \in chars

\* isspace() of C
CSpace == { "\t", "\n", Chr(11), "\f", "\r", " " }

\* PyLong_FromString, base 10, after the white space and the sign: span is
\* the run of digits and underscores read, rest what follows it.  The span
\* is refused when it is empty or an underscore stands first, last or next
\* to another; then a span of more than 4300 digits is refused with a
\* message of its own; then anything but white space after it is refused.
\*   outcome      "value", "invalid" or "exceeds"
\*   negative     the sign is a minus
\*   digits       the number of digits read
\*   significant  the digits from the first that is not 0
long_from_span(negative, span, rest) ==
    CHOOSE r \in
        { [ outcome |->
              IF \/ span = << >> \/ span[1] = "_" \/ span[Len(span)] = "_"
                 \/ \E k \in 1..(Len(span) - 1) : span[k] = "_" /\ span[k + 1] = "_"
              THEN "invalid"
              ELSE IF Len(digits) > 4300 THEN "exceeds"
              ELSE IF \A i \in 1..Len(rest) : rest[i] \in CSpace THEN "value"
              ELSE "invalid",
            negative |-> negative,
            digits |-> Len(digits),
            significant |-> SubSeq(digits, skip(digits, 1, { "0" }), Len(digits)) ] :
          digits \in { SelectSeq(span, LAMBDA c : c # "_") } } : TRUE

\* int(s) on a string: white space, a sign, digits with single underscores
\* between them, white space
long_from_string(s) ==
    CHOOSE r \in
        { long_from_span(u.negative,
                         SubSeq(u.text, 1, skip(u.text, 1, Digits \cup { "_" }) - 1),
                         SubSeq(u.text, skip(u.text, 1, Digits \cup { "_" }), Len(u.text))) :
          u \in { [ negative |-> t # << >> /\ t[1] = "-",
                    text |-> IF t # << >> /\ t[1] \in { "+", "-" } THEN Tail(t) ELSE t ] :
                  t \in { SubSeq(a, skip(a, 1, CSpace), Len(a)) :
                          a \in { ascii_decimal(s) } } } } : TRUE

\* int(s) returns
IsIntLiteral(s) == long_from_string(s).outcome = "value"

\* int(s) for an s it takes.  The integers of the model checker end at
\* 2^31 - 1: the value is computed for up to nine significant digits.
int(s) ==
    CHOOSE v \in { IF r.negative THEN 0 - ToInt(r.significant) ELSE ToInt(r.significant) :
                   r \in { long_from_string(s) } } : TRUE

\* repr() of a string: in single quotes, in double quotes when it holds a
\* single quote and no double quote; the quote in use and the backslash
\* escaped by a backslash, tab, line feed and carriage return as \t, \n and
\* \r, every other character that is not printable as \xhh, \uhhhh or
\* \Uhhhhhhhh
repr(s) ==
    LET has(c) == \E i \in 1..Len(s) : s[i] = c
        quote == IF has("'") /\ ~has("\"") THEN "\"" ELSE "'"
        escaped(c, n) ==
            IF c = quote \/ c = "\\" THEN << "\\", c >>
            ELSE IF c = "\t" THEN << "\\", "t" >>
            ELSE IF c = "\n" THEN << "\\", "n" >>
            ELSE IF c = "\r" THEN << "\\", "r" >>
            ELSE IF n < 32 \/ n = 127 THEN << "\\", "x" >> \o hex(n, 2, HexLower)
            ELSE IF n < 127 \/ ~InRanges(Unicode.nonprintable, n) THEN << c >>
            ELSE IF n < 256 THEN << "\\", "x" >> \o hex(n, 2, HexLower)
            ELSE IF n < 65536 THEN << "\\", "u" >> \o hex(n, 4, HexLower)
            ELSE << "\\", "U" >> \o hex(n, 8, HexLower)
    IN  << quote >> \o Flatten([i \in 1..Len(s) |-> escaped(s[i], Ord(s[i]))]) \o << quote >>

\* str(e) of the ValueError int(s) raises: the literal is given by the first
\* 200 characters of its repr()
IntError(s) ==
    CHOOSE e \in
        { IF r.outcome = "exceeds"
          THEN <<"E","x","c","e","e","d","s"," ","t","h","e"," ","l","i","m","i","t"," ","(","4","3","0","0"," ","d","i","g","i","t","s",")"," ","f","o","r"," ","i","n","t","e","g","e","r"," ","s","t","r","i","n","g"," ","c","o","n","v","e","r","s","i","o","n",":"," ","v","a","l","u","e"," ","h","a","s"," ">>
               \o IntStr(r.digits)
               \o <<" ","d","i","g","i","t","s",";"," ","u","s","e"," ","s","y","s",".","s","e","t","_","i","n","t","_","m","a","x","_","s","t","r","_","d","i","g","i","t","s","(",")"," ","t","o"," ","i","n","c","r","e","a","s","e"," ","t","h","e"," ","l","i","m","i","t">>
          ELSE <<"i","n","v","a","l","i","d"," ","l","i","t","e","r","a","l"," ","f","o","r"," ","i","n","t","(",")"," ","w","i","t","h"," ","b","a","s","e"," ","1","0",":"," ">> \o Take(repr(s), 200) :
          r \in { long_from_string(s) } } : TRUE

\* json_response(handler, code, payload)
json_response(code, payload) == [ status |-> code, body |-> payload ]

ErrorBody(msg) == [ error |-> msg ]

\* the value of  qs.get("limit", ["20"])[0]
limit_text(req) == IF req.limit = << >> THEN <<"2","0">> ELSE req.limit

\* table.query(KeyConditionExpression=..., ScanIndexForward=False,
\* Limit=int(text)) for a text int() takes.  A value of more than nine
\* digits is not computed: below zero it is refused by its text like every
\* Limit below 1, above zero it is a Limit no page reaches.
query_limited(table, pkattr, skattr, pk, text) ==
    CHOOSE response \in
        { IF Len(r.significant) <= 9
          THEN query(table, pkattr, skattr, pk, FALSE, << >>, << >>, FALSE,
                     << IF r.negative THEN 0 - ToInt(r.significant) ELSE ToInt(r.significant) >>)
          ELSE IF r.negative
          THEN Raised("ParamValidationError", LimitErrorOf(<<"-">> \o r.significant))
          ELSE query(table, pkattr, skattr, pk, FALSE, << >>, << >>, FALSE, NoLimit) :
          r \in { long_from_string(text) } } : TRUE

\* Api.do_GET on the parsed request: its path and the query values of
\* category, start, end and limit, an absent or blank one being << >>.
\* The tests run in the order of the code; whatever a step raises is
\* answered with status 500 and str(e).
do_GET(table, req) ==
    IF req.path = <<"/","p","a","p","e","r","s","/","r","e","c","e","n","t">>
    THEN IF ~IsIntLiteral(limit_text(req))
         THEN json_response(500, ErrorBody(IntError(limit_text(req))))
         ELSE IF req.category = << >>
         THEN json_response(400, ErrorBody(<<"m","i","s","s","i","n","g"," ","c","a","t","e","g","o","r","y">>))
         ELSE LET response == query_limited(table, "PK", "SK",
                                            <<"C","A","T","E","G","O","R","Y","#">> \o req.category,
                                            limit_text(req))
              IN  IF response.query_type = "raised"
                  THEN json_response(500, ErrorBody(response.message))
                  ELSE json_response(200, [ category |-> req.category,
                                            papers |-> response.Items,
                                            count |-> Len(response.Items) ])
    ELSE IF StartsWith(req.path, <<"/","p","a","p","e","r","s","/","a","u","t","h","o","r","/">>)
    THEN LET author_name == unquote(split_second(req.path, <<"/","p","a","p","e","r","s","/","a","u","t","h","o","r","/">>))
             response == query(table, "GSI1PK", "GSI1SK", <<"A","U","T","H","O","R","#">> \o author_name,
                               FALSE, << >>, << >>, TRUE, NoLimit)
         IN  IF response.query_type = "raised"
             THEN json_response(500, ErrorBody(response.message))
             ELSE json_response(200, [ author |-> author_name,
                                       papers |-> response.Items,
                                       count |-> Len(response.Items) ])
    ELSE IF /\ StartsWith(req.path, <<"/","p","a","p","e","r","s","/">>)
            /\ count(req.path, "/") = 2
            /\ ~StartsWith(req.path, <<"/","p","a","p","e","r","s","/","a","u","t","h","o","r","/">>)
            /\ ~StartsWith(req.path, <<"/","p","a","p","e","r","s","/","k","e","y","w","o","r","d","/">>)
    THEN LET arxiv_id == unquote(split_second(req.path, <<"/","p","a","p","e","r","s","/">>))
             response == query(table, "GSI2PK", "GSI2SK", <<"P","A","P","E","R","#">> \o arxiv_id,
                               FALSE, << >>, << >>, TRUE, NoLimit)
         IN  IF response.query_type = "raised"
             THEN json_response(500, ErrorBody(response.message))
             ELSE IF response.Items = << >>
             THEN json_response(404, ErrorBody(<<"n","o","t"," ","f","o","u","n","d">>))
             ELSE json_response(200, response.Items[1])
    ELSE IF req.path = <<"/","p","a","p","e","r","s","/","s","e","a","r","c","h">>
    THEN IF req.category = << >> \/ req.start = << >> \/ req.end = << >>
         THEN json_response(400, ErrorBody(<<"m","i","s","s","i","n","g"," ","c","a","t","e","g","o","r","y","/","s","t","a","r","t","/","e","n","d">>))
         ELSE LET response == query(table, "PK", "SK", <<"C","A","T","E","G","O","R","Y","#">> \o req.category,
                                    TRUE, req.start \o <<"#">>, req.end \o <<"#","z","z","z","z","z","z","z">>,
                                    TRUE, NoLimit)
              IN  IF response.query_type = "raised"
                  THEN json_response(500, ErrorBody(response.message))
                  ELSE json_response(200, [ category |-> req.category,
                                            start |-> req.start, end |-> req.end,
                                            papers |-> response.Items,
                                            count |-> Len(response.Items) ])
    ELSE IF StartsWith(req.path, <<"/","p","a","p","e","r","s","/","k","e","y","w","o","r","d","/">>)
    THEN LET keyword == lower(unquote(split_second(req.path, <<"/","p","a","p","e","r","s","/","k","e","y","w","o","r","d","/">>)))
         IN  IF ~IsIntLiteral(limit_text(req))
             THEN json_response(500, ErrorBody(IntError(limit_text(req))))
             ELSE LET response == query_limited(table, "GSI3PK", "GSI3SK",
                                                <<"K","E","Y","W","O","R","D","#">> \o keyword,
                                                limit_text(req))
                  IN  IF response.query_type = "raised"
                      THEN json_response(500, ErrorBody(response.message))
                      ELSE json_response(200, [ keyword |-> keyword,
                                                papers |-> response.Items,
                                                count |-> Len(response.Items) ])
    ELSE json_response(404, ErrorBody(<<"r","o","u","t","e"," ","n","o","t"," ","f","o","u","n","d">>))

Request(path, category, start, end, limit) ==
    [ path |-> path, category |-> category, start |-> start, end |-> end, limit |-> limit ]

\* The requests tried are requests the server hands to do_GET: the path
\* holds no white space (parse_request splits the request line on it and
\* answers 400 by itself) and the query values are as parse_qs gives them, a
\* plus sign of the query being a blank.  Every route comes with and without
\* its parameters; the limits are the absent one, 0, a number with a blank
\* before it (limit=+1), one with an underscore, and two texts that are no
\* number; the path segments are plain, escaped (a blank, a grave accent,
\* the two bytes of U+00E9) and absent.
HttpLimits == { << >>, <<"0">>, <<" ","1">>, <<"1","_","0">>, <<"x">>, <<"a","'","b">> }

HttpRequests ==
    { Request(<<"/","p","a","p","e","r","s","/","r","e","c","e","n","t">>, c, << >>, << >>, l) :
        c \in { << >> } \cup QueryCategories, l \in HttpLimits }
    \cup { Request(p, << >>, << >>, << >>, << >>) :
             p \in { <<"/","p","a","p","e","r","s","/","a","u","t","h","o","r","/","A",".","%","2","0","L","e","e">>, <<"/","p","a","p","e","r","s","/","a","u","t","h","o","r","/","B",".","%","2","0","C","h","e","n">>,
                     <<"/","p","a","p","e","r","s","/","a","u","t","h","o","r","/","X","%","6","0">>,
                     <<"/","p","a","p","e","r","s","/","2","3","0","1",".","0","0","0","0","1">>, <<"/","p","a","p","e","r","s","/","2">>,
                     <<"/","p","a","p","e","r","s">>, <<"/","p","a","p","e","r","s","/","2","3","0","1",".","0","0","0","0","1","/","v","e","r","s","i","o","n","s">>,
                     <<"/","p","a","p","e","r","s","/","k","e","y","w","o","r","d","/","t","r","a","f","f","i","c">>, <<"/","p","a","p","e","r","s","/","k","e","y","w","o","r","d","/","c","a","f","%","C","3","%","A","9">> } }
    \cup { Request(<<"/","p","a","p","e","r","s","/","s","e","a","r","c","h">>, c, st, en, << >>) :
             c \in { << >>, <<"c","s",".","L","G">> }, st \in { << >>, <<"2","0","2","3","-","0","1","-","1","5">> },
             en \in { << >>, <<"2","0","2","3","-","0","2","-","0","1">> } }
    \cup { Request(<<"/","p","a","p","e","r","s","/","k","e","y","w","o","r","d","/","G","r","a","p","h">>, << >>, << >>, << >>, l) :
             l \in HttpLimits }

\* one GET request; the server is a process of its own and answers at any
\* time, also while a load is under way
HttpGet ==
    /\ http = NoHttp
    /\ \E req \in HttpRequests, sv \in ObservableServices :
          http' = [ request |-> req, response |-> do_GET(Table(sv), req) ]
    /\ UNCHANGED << store, loadVars, args, resp, kwVars >>

NextHttp ==
    \/ StartLoad
    \/ LoadRecord
    \/ Finish
    \/ HttpGet

SpecHttp == Init /\ [][NextHttp]_vars

(* ------------------- keyword extraction on its own --------------------- *)

InitKw ==
    /\ store = {}
    /\ buffer = << >>
    /\ input = << >>
    /\ pos = 0
    /\ call = 0
    /\ total_papers = 0
    /\ stats = ZeroStats
    /\ last_writes = << >>
    /\ phase = "idle"
    /\ run = 0
    /\ report = NoReport
    /\ args = NoArgs
    /\ resp = NoResponse
    /\ history = << >>
    /\ attempt = NoAttempt
    /\ http = NoHttp
    /\ kw_abstract \in KwAbstracts
    /\ kw_topk \in 0..MaxTopK
    /\ kw_result = NotCalled

\* one call extract_keywords(abstract, topk)
ExtractKeywords ==
    /\ kw_result = NotCalled
    /\ kw_result' = extract_keywords(kw_abstract, kw_topk)
    /\ UNCHANGED << store, loadVars, args, resp, http, kw_abstract, kw_topk >>

NextKw == ExtractKeywords

SpecKw == InitKw /\ [][NextKw]_vars

(* ============================ properties =============================== *)

\* the four counters after the records ps, each valid one adding 1,
\* |categories|, |authors| and |keywords|
RECURSIVE CountersAfter(_)
CountersAfter(ps) ==
    IF ps = << >> THEN ZeroStats
    ELSE LET p    == ps[Len(ps)]
             rest == CountersAfter(SubSeq(ps, 1, Len(ps) - 1))
         IN  IF ~passes_validation(p) THEN rest
             ELSE [ paper_id_items |-> rest.paper_id_items + 1,
                    category_items |-> rest.category_items + Len(p.categories),
                    author_items   |-> rest.author_items + Len(p.authors),
                    keyword_items  |-> rest.keyword_items
                                       + Len(extract_keywords(p.abstract, TopK)) ]

\* C1: every record that passes validation makes the loader emit exactly
\* 1 + |categories| + |authors| + |keywords| put_item calls: first the
\* PAPER#<id> item with SK "A", then one CATEGORY#<cat> item per category
\* entry, one AUTHOR#<author> item per author entry and one KEYWORD#<kw> item
\* per extracted keyword, these with SK <date>#<id>; and over the record the
\* four counters grow by 1, |categories|, |authors| and |keywords|.
C1_WritesPerRecord ==
    [][ /\ (phase = "loading" /\ call = 0) => stats = CountersAfter(SubSeq(input, 1, pos))
        /\ (phase = "loading" /\ pos' = pos + 1 /\ passes_validation(input[pos + 1])) =>
          LET p   == input[pos + 1]
              id  == rec_arxiv_id(p)
              sk  == date_str(p) \o <<"#">> \o id
              nc  == Len(p.categories)
              na  == Len(p.authors)
              kws == extract_keywords(p.abstract, TopK)
              nk  == Len(kws)
              w   == last_writes'
          IN  /\ Len(w) = 1 + nc + na + nk
              /\ w[1].PK = <<"P","A","P","E","R","#">> \o id /\ w[1].SK = <<"A">>
              /\ \A i \in 1..nc :
                    w[1 + i].PK = <<"C","A","T","E","G","O","R","Y","#">> \o p.categories[i] /\ w[1 + i].SK = sk
              /\ \A i \in 1..na :
                    w[1 + nc + i].PK = <<"A","U","T","H","O","R","#">> \o p.authors[i] /\ w[1 + nc + i].SK = sk
              /\ \A i \in 1..nk :
                    w[1 + nc + na + i].PK = <<"K","E","Y","W","O","R","D","#">> \o kws[i] /\ w[1 + nc + na + i].SK = sk
              /\ stats' = CountersAfter(SubSeq(input, 1, pos + 1))
      ]_vars

\* a record with a repeated author has just been written: 1 + 2 + 2 + 0 puts
C1_Witness ==
    /\ phase = "loading" /\ pos >= 1 /\ call = 0
    /\ input[pos] = PRepeat
    /\ Len(last_writes) = 5
    /\ stats.author_items >= 2

\* C2: loading the same input twice in a row is idempotent: whatever the
\* table held before, the table after the second load has the same items
\* (keys and payloads) as after the first, and no more of them.
C2_ReloadIdempotent ==
    \A k \in 2..Len(history) :
        history[k].input = history[k - 1].input =>
            /\ history[k].store = history[k - 1].store
            /\ Cardinality(history[k].store) <= Cardinality(history[k - 1].store)

\* a seeded table, then a file with a valid record loaded twice; the first
\* of the two loads changed the table
C2_Witness ==
    /\ Len(history) = 3
    /\ history[3].input = history[2].input
    /\ \E i \in 1..Len(history[2].input) : passes_validation(history[2].input[i])
    /\ history[1].store # {}
    /\ history[2].store # history[1].store

\* the claim's own reading of an invalid record
MissingField(p) ==
    \/ p.arxiv_id = << >> /\ p.id = << >>
    \/ p.title = << >>
    \/ p.published = << >> /\ p.updated = << >> /\ p.date = << >>

\* the table after writing the items of every record of ps, none skipped
RECURSIVE WriteAll(_, _)
WriteAll(table, ps) ==
    IF ps = << >> THEN table
    ELSE WriteAll(put_all(table, item_writes(Head(ps))), Tail(ps))

\* C3: a record without id, title or date causes no item write and is not
\* counted in total_papers or in any item counter, and the loop goes on to
\* the next record: the table a run leaves is the one the same file without
\* its invalid records gives.
C3_InvalidSkipped ==
    [][ /\ (phase = "loading" /\ pos' = pos + 1 /\ MissingField(input[pos + 1])) =>
              /\ store' = store
              /\ last_writes' = << >>
              /\ stats' = stats
              /\ total_papers' = total_papers
              /\ phase' = "loading" /\ input' = input
        /\ (phase = "loading" /\ phase' # "loading") =>
              /\ store' = WriteAll(IF history = << >> THEN {} ELSE history[Len(history)].store,
                                   SelectSeq(input, LAMBDA p : ~MissingField(p)))
              /\ report'.loaded = Len(SelectSeq(input, LAMBDA p : ~MissingField(p)))
      ]_vars

\* a run skipped a record without title, loaded the valid record after it
\* and finished
C3_Witness ==
    /\ phase = "done"
    /\ Len(input) = 2
    /\ input[1] = PNoTitle
    /\ ~MissingField(input[2])
    /\ report.loaded = 1
    /\ last_writes # << >>

Range(seq) == { seq[i] : i \in 1..Len(seq) }

\* one valid paper was loaded into an empty table and the run is over
OnePaperLoaded ==
    /\ phase = "done" /\ run = 1
    /\ Len(input) = 1 /\ passes_validation(input[1])

\* C4 as stated: after one valid paper is loaded into an empty table the
\* table holds exactly 1 + |categories| + |authors| + |keywords| items, also
\* when authors or categories repeat a value.
C4_Original ==
    OnePaperLoaded =>
        Cardinality(store) = 1 + Len(input[1].categories) + Len(input[1].authors)
                               + Len(extract_keywords(input[1].abstract, TopK))

\* C4 amended: after one valid paper is loaded into an empty table the table
\* holds exactly 1 + (number of distinct categories) + (number of distinct
\* authors) + |keywords| items: the puts of a repeated entry go to the same
\* (PK, SK) and replace one another, so the count is 1 + |categories| +
\* |authors| + |keywords| exactly when no author and no category is repeated.
C4_StoredItems ==
    OnePaperLoaded =>
        LET p == input[1]
        IN  /\ Cardinality(store) = 1 + Cardinality(Range(p.categories))
                                      + Cardinality(Range(p.authors))
                                      + Len(extract_keywords(p.abstract, TopK))
            /\ (Cardinality(store) = 1 + Len(p.categories) + Len(p.authors)
                                       + Len(extract_keywords(p.abstract, TopK)))
                 <=> (/\ Cardinality(Range(p.categories)) = Len(p.categories)
                      /\ Cardinality(Range(p.authors)) = Len(p.authors))

\* the paper with a repeated author and a repeated category: 5 puts, 3 items
C4_Witness ==
    /\ OnePaperLoaded
    /\ input[1] = PRepeat
    /\ stats.author_items = 2 /\ stats.category_items = 2
    /\ Cardinality(store) = 3

\* the tokens the extractor keeps, and their rank
KeptTokens(abstract) ==
    { t \in Range(tokenize(abstract)) : t \notin STOPWORDS /\ Len(t) >= 3 }

Frequency(abstract, t) ==
    Cardinality({ i \in 1..Len(tokenize(abstract)) : tokenize(abstract)[i] = t })

FirstOccurrence(abstract, t) ==
    CHOOSE i \in 1..Len(tokenize(abstract)) :
        /\ tokenize(abstract)[i] = t
        /\ \A j \in 1..(i - 1) : tokenize(abstract)[j] # t

RanksBefore(abstract, t, u) ==
    \/ Frequency(abstract, t) > Frequency(abstract, u)
    \/ /\ Frequency(abstract, t) = Frequency(abstract, u)
       /\ FirstOccurrence(abstract, t) < FirstOccurrence(abstract, u)

\* C5: extract_keywords(abstract, K) is the list of the distinct case-folded
\* tokens that are no stopwords and have at least 3 characters, by descending
\* frequency, ties by first occurrence in the text, cut to the first K; it is
\* empty when the abstract is empty or every token is filtered out.
C5_KeywordRanking ==
    kw_result # NotCalled =>
        LET kept == KeptTokens(kw_abstract)
            n    == Len(kw_result)
        IN  /\ n = Min(kw_topk, Cardinality(kept))
            /\ \A i \in 1..n : kw_result[i] \in kept
            /\ \A i, j \in 1..n : i < j => RanksBefore(kw_abstract, kw_result[i], kw_result[j])
            /\ \A t \in kept \ Range(kw_result) :
                  \A i \in 1..n : RanksBefore(kw_abstract, kw_result[i], t)
            /\ kept = {} => kw_result = << >>

\* three kept tokens, two of them returned, in first-occurrence order since
\* they are equally frequent, the third cut off
C5_Witness ==
    /\ kw_result # NotCalled
    /\ kw_topk = 2
    /\ Len(kw_result) = 2
    /\ Cardinality(KeptTokens(kw_abstract)) = 3
    /\ Frequency(kw_abstract, kw_result[1]) = Frequency(kw_abstract, kw_result[2])
    /\ Len(tokenize(kw_abstract)) > Len(filtered_tokens(kw_abstract))

\* the worked example was loaded into an empty table and the run is over
ExampleLoaded ==
    /\ phase = "done" /\ run = 1
    /\ input = << PExample >>

\* C6 as stated: in the example graph counts 4 and traffic 3, then networks
\* 2, neural 1, prediction 1; the keyword list is graph, traffic, networks,
\* neural, prediction; the load stores 9 items.
C6_Original ==
    ExampleLoaded =>
        /\ Frequency(ExampleAbstract, <<"g","r","a","p","h">>) = 4
        /\ Frequency(ExampleAbstract, <<"t","r","a","f","f","i","c">>) = 3
        /\ Frequency(ExampleAbstract, <<"n","e","t","w","o","r","k","s">>) = 2
        /\ Frequency(ExampleAbstract, <<"n","e","u","r","a","l">>) = 1
        /\ Frequency(ExampleAbstract, <<"p","r","e","d","i","c","t","i","o","n">>) = 1
        /\ last_writes[1].keywords =
              << <<"g","r","a","p","h">>, <<"t","r","a","f","f","i","c">>, <<"n","e","t","w","o","r","k","s">>, <<"n","e","u","r","a","l">>, <<"p","r","e","d","i","c","t","i","o","n">> >>
        /\ Len(last_writes) = 9
        /\ Cardinality(store) = 9

\* C6 amended: in the example graph counts 3, networks 2 and traffic 2,
\* neural 1, prediction 1; the keyword list is graph, networks, traffic,
\* neural, prediction (networks occurs before traffic); the load stores 9
\* items: 1 paper, 1 category, 2 author and 5 keyword items.
C6_Example ==
    ExampleLoaded =>
        /\ Frequency(ExampleAbstract, <<"g","r","a","p","h">>) = 3
        /\ Frequency(ExampleAbstract, <<"n","e","t","w","o","r","k","s">>) = 2
        /\ Frequency(ExampleAbstract, <<"t","r","a","f","f","i","c">>) = 2
        /\ Frequency(ExampleAbstract, <<"n","e","u","r","a","l">>) = 1
        /\ Frequency(ExampleAbstract, <<"p","r","e","d","i","c","t","i","o","n">>) = 1
        /\ last_writes[1].keywords =
              << <<"g","r","a","p","h">>, <<"n","e","t","w","o","r","k","s">>, <<"t","r","a","f","f","i","c">>, <<"n","e","u","r","a","l">>, <<"p","r","e","d","i","c","t","i","o","n">> >>
        /\ Len(last_writes) = 9
        /\ Cardinality(store) = 9
        /\ stats = [ paper_id_items |-> 1, category_items |-> 1,
                     author_items |-> 2, keyword_items |-> 5 ]
        /\ \A x \in store : x.published = <<"2","0","2","3","-","0","1","-","1","5","T","1","0",":","3","0",":","0","0","Z">>
        /\ \E x \in store : x.SK = <<"2","0","2","3","-","0","1","-","1","5","#","2","3","0","1",".","0","0","0","0","1">>

\* the example is in the table
C6_Witness ==
    /\ ExampleLoaded
    /\ \E x \in store : x.PK = <<"K","E","Y","W","O","R","D","#","p","r","e","d","i","c","t","i","o","n">>

\* the items of a query's partition in the table
CategoryPartition(category) == { x \in store : x.PK = <<"C","A","T","E","G","O","R","Y","#">> \o category }

\* C7: on the table the loader has created, for any category and positive
\* limit, query_recent_in_category returns only items with PK =
\* CATEGORY#<category>, non-increasing by sort key, at most limit of them,
\* namely those with the limit greatest sort keys of the partition; count is
\* the length of the result list.
C7_RecentInCategory ==
    (args.cmd = "recent" /\ args.limit >= 1 /\ TableExists) =>
        /\ resp.query_type = "recent_in_category"
        /\ LET part == CategoryPartition(args.category)
               r    == resp.results
           IN  /\ \A i \in 1..Len(r) : r[i] \in part
               /\ \A i, j \in 1..Len(r) : i < j => StrLE(r[j].SK, r[i].SK)
               /\ Len(r) <= args.limit
               /\ Len(r) = Min(args.limit, Cardinality(part))
               /\ \A x \in part \ Range(r) : \A i \in 1..Len(r) : StrLE(x.SK, r[i].SK)
               /\ resp.count = Len(r)

\* the part of a sort key before its first '#'
DateComponent(sk) ==
    LET i == CHOOSE k \in 1..Len(sk) : sk[k] = "#" /\ \A j \in 1..(k - 1) : sk[j] # "#"
    IN  SubSeq(sk, 1, i - 1)

InDateRange(x, start, end) ==
    StrLE(start, DateComponent(x.SK)) /\ StrLE(DateComponent(x.SK), end)

\* C8: every item query_papers_in_date_range returns has PK =
\* CATEGORY#<category> and a date component d of its sort key with
\* start <= d <= end in lexicographic order.
C8_DateRangeSound ==
    resp.query_type = "papers_in_date_range" =>
        \A i \in 1..Len(resp.results) :
            /\ resp.results[i].PK = <<"C","A","T","E","G","O","R","Y","#">> \o resp.parameters.category
            /\ InDateRange(resp.results[i], resp.parameters.start_date, resp.parameters.end_date)

\* C9: query_papers_in_date_range is complete: every stored item of the
\* requested category whose date lies in [start, end], in particular one
\* whose date equals end, whatever its id, is in the result.
C9_DateRangeComplete ==
    resp.query_type = "papers_in_date_range" =>
        \A x \in CategoryPartition(resp.parameters.category) :
            InDateRange(x, resp.parameters.start_date, resp.parameters.end_date)
                => x \in Range(resp.results)

\* some valid record with this id was in the file of a finished load
WasLoaded(arxiv_id) ==
    \E k \in 1..Len(history) : \E i \in 1..Len(history[k].input) :
        /\ passes_validation(history[k].input[i])
        /\ rec_arxiv_id(history[k].input[i]) = arxiv_id

TimesLoaded(arxiv_id) ==
    Cardinality({ ki \in (1..Len(history)) \X (1..(MaxPre + MaxInput)) :
                    /\ ki[2] <= Len(history[ki[1]].input)
                    /\ passes_validation(history[ki[1]].input[ki[2]])
                    /\ rec_arxiv_id(history[ki[1]].input[ki[2]]) = arxiv_id })

\* a valid record with this id is in the file of the load under way
BeingLoaded(arxiv_id) ==
    /\ phase = "loading"
    /\ \E i \in 1..Len(input) :
          passes_validation(input[i]) /\ rec_arxiv_id(input[i]) = arxiv_id

\* what C10 says of the answer to  get <id>
GetByIdAnswer ==
    /\ resp.query_type = "get_paper_by_id"
    /\ LET id     == args.arxiv_id
           papers == { x \in store : x.PK = <<"P","A","P","E","R","#">> \o id }
       IN  /\ WasLoaded(id) => papers # {}
           /\ papers # {} => (WasLoaded(id) \/ BeingLoaded(id))
           /\ IF papers # {}
              THEN /\ resp.count = 1
                   /\ Len(resp.results) = 1
                   /\ papers = { resp.results[1] }
              ELSE /\ resp.count = 0
                   /\ resp.results = << >>

\* C10 as stated: get_paper_by_id never reports an error: it returns an
\* envelope for every id, with an empty result list and count 0 when no
\* paper with the id has been loaded, and with exactly one result, the single
\* PAPER#<id> item, and count 1 when it has been loaded, however often.
C10_Original == args.cmd = "get" => GetByIdAnswer

\* C10 amended: once the loader has created the table, get_paper_by_id
\* reports no error for any id: it returns an envelope, with an empty result
\* list and count 0 when no paper with the id has been loaded, and with
\* exactly one result, the single PAPER#<id> item of the table, and count 1
\* when it has been loaded, however often.  Before the first load there is
\* no table and the call raises ResourceNotFoundException.
C10_GetById ==
    /\ (args.cmd = "get" /\ TableExists) => GetByIdAnswer
    /\ (args.cmd = "get" /\ ~TableExists) =>
          resp = Raised("ClientError", TableMissing)

\* an id loaded three times, in two versions with different dates, is found
\* once
C10_Witness ==
    /\ resp.query_type = "get_paper_by_id"
    /\ resp.count = 1
    /\ TimesLoaded(resp.parameters.arxiv_id) >= 3
    /\ \E k \in 1..Len(history) :
          \E x \in history[k].store :
             /\ x.arxiv_id = resp.parameters.arxiv_id
             /\ x.published # resp.results[1].published

\* the items of a keyword's partition of the keyword index
KeywordPartition(kw) == { x \in store : x.GSI3PK = <<"K","E","Y","W","O","R","D","#">> \o kw }

\* the valid records of the files of the finished loads
LoadedRecords ==
    { p \in Papers :
        /\ passes_validation(p)
        /\ \E k \in 1..Len(history) :
              \E i \in 1..Len(history[k].input) : history[k].input[i] = p }

\* C11: query_papers_by_keyword looks the keyword up case-folded: whatever
\* the casing, the result is what the lower-case keyword gives, namely items
\* of the partition KEYWORD#<lower(keyword)> only, by descending sort key, at
\* most limit of them: those with the greatest sort keys, limit of them when
\* the partition has as many and fits one page; the call returns whenever the
\* table exists and limit is positive; and every loaded paper whose
\* extracted keywords contain lower(keyword) has an item in that partition.
C11_KeywordCaseFolded ==
    args.cmd = "keyword" =>
        LET kw   == lower(args.keyword)
            part == KeywordPartition(kw)
            r    == resp.results
        IN  /\ (TableExists /\ args.limit >= 1) => resp.query_type = "papers_by_keyword"
            /\ resp.query_type = "papers_by_keyword" =>
                  /\ \A i \in 1..Len(r) : r[i] \in part
                  /\ \A i, j \in 1..Len(r) : i < j => StrLE(r[j].GSI3SK, r[i].GSI3SK)
                  /\ Len(r) <= args.limit
                  /\ SizeOf(part) <= PageBytes => Len(r) = Min(args.limit, Cardinality(part))
                  /\ \A x \in part \ Range(r) :
                        \A i \in 1..Len(r) : StrLE(x.GSI3SK, r[i].GSI3SK)
                  /\ resp.count = Len(r)
            /\ \A p \in LoadedRecords :
                  kw \in Range(extract_keywords(p.abstract, TopK)) =>
                     \E x \in part : x.arxiv_id = rec_arxiv_id(p)

\* a keyword typed with a capital finds the newest of several papers that
\* have it in lower case
C11_Witness ==
    /\ resp.query_type = "papers_by_keyword"
    /\ resp.parameters.keyword # lower(resp.parameters.keyword)
    /\ resp.parameters.limit = 1
    /\ resp.count = 1
    /\ Cardinality(KeywordPartition(lower(resp.parameters.keyword))) >= 2
    /\ \E p \in LoadedRecords : p.abstract # lower(p.abstract)

\* the date an item is filed under: GSI2SK of a paper item, else the date
\* component of the sort key
KeyDate(x) == IF x.GSI2SK # NoAttr THEN x.GSI2SK ELSE DateComponent(x.SK)

\* per input record: the keywords of its abstract, its raw date value and
\* the calendar date that value normalizes to
ExpectedKeywords == [ p \in Papers |-> extract_keywords(p.abstract, TopK) ]
RawDate          == [ p \in Papers |-> Or(p.published, Or(p.updated, p.date)) ]
NormalizedDate   == [ p \in Papers |-> iso_to_date(RawDate[p]) ]

\* every payload attribute of x comes from one input record p, with the
\* keywords of its abstract
PayloadOf(x, p) ==
    /\ x.arxiv_id = rec_arxiv_id(p) /\ x.arxiv_id # << >>
    /\ x.title = p.title /\ x.title # << >>
    /\ x.authors = p.authors
    /\ x.abstract = p.abstract
    /\ x.categories = p.categories
    /\ x.keywords = ExpectedKeywords[p]

\* C12 as stated: every stored item of every kind carries the full payload
\* arxiv_id, title, authors, abstract, categories, keywords and published,
\* and published is the normalized calendar date, the date of the item's
\* sort key or GSI2SK.
C12_Original ==
    \A x \in store :
        /\ \E p \in Papers : PayloadOf(x, p)
        /\ x.published = KeyDate(x)

\* C12 amended: every stored item of every kind carries the full payload
\* arxiv_id, title, authors, abstract, categories, keywords and published,
\* where published is the raw source value (the first non-empty of
\* published, updated, date); the normalized calendar date is kept only in
\* the item's sort key or GSI2SK and is what published normalizes to.
C12_FullPayload ==
    \A x \in store :
        \E p \in Papers :
            /\ PayloadOf(x, p)
            /\ x.published = RawDate[p]
            /\ KeyDate(x) = NormalizedDate[p]

\* items of all four kinds whose published is a timestamp, not their date
C12_Witness ==
    /\ \A kind \in { <<"P","A","P","E","R","#","2","3">>, <<"C","A","T","E","G","O","R","Y">>, <<"A","U","T","H","O","R","#","B">>, <<"K","E","Y","W","O","R","D","#">> } :
          \E x \in store : Take(x.PK, 8) = kind /\ x.published # KeyDate(x)
    /\ \E x \in store : x.published = KeyDate(x)

\* C13: without a store failure every load runs to normal completion, also
\* on an empty file and on a file of invalid records only, and reports
\* papers loaded = number of valid records, total items = sum of the four
\* counters, factor = total items / papers loaded, 0 when none was loaded.
C13_LoadCompletes ==
    phase \in { "done", "failed" } =>
        LET valid == SelectSeq(input, LAMBDA p : ~MissingField(p))
            total == stats.paper_id_items + stats.category_items
                     + stats.author_items + stats.keyword_items
        IN  /\ phase = "done"
            /\ report.loaded = Len(valid)
            /\ report.items = total
            /\ report.factor = IF Len(valid) = 0 THEN << 0, 1 >> ELSE << total, Len(valid) >>

\* the put_item calls of the current run so far, in call order
RECURSIVE WritesOf(_)
WritesOf(ps) ==
    IF ps = << >> THEN << >>
    ELSE (IF passes_validation(Head(ps)) THEN item_writes(Head(ps)) ELSE << >>)
         \o WritesOf(Tail(ps))

RunWrites == WritesOf(SubSeq(input, 1, pos))

SameKey(x, y) == x.PK = y.PK /\ x.SK = y.SK

\* C14 as stated: within one load run any two item writes to the same
\* (PK, SK) carry identical content.
C14_Original ==
    phase = "loading" =>
        \A i, j \in 1..Len(RunWrites) :
            SameKey(RunWrites[i], RunWrites[j]) => RunWrites[i] = RunWrites[j]

\* records of one file that share an id are the same record, and records
\* with different ids get different sort keys <date>#<id>
NoConflictingRecords(ps) ==
    \A i, j \in 1..Len(ps) :
        (passes_validation(ps[i]) /\ passes_validation(ps[j])) =>
            /\ rec_arxiv_id(ps[i]) = rec_arxiv_id(ps[j]) => core(ps[i]) = core(ps[j])
            /\ DateIdKey(ps[i]) = DateIdKey(ps[j]) => rec_arxiv_id(ps[i]) = rec_arxiv_id(ps[j])

RecordOrders(n) == { f \in [1..n -> 1..n] : \A i, j \in 1..n : f[i] = f[j] => i = j }

\* the table the finished run started from
StartOfRun == IF Len(history) >= 2 THEN history[Len(history) - 1].store ELSE {}

\* C14 amended: within one load run whose valid records do not conflict
\* (records sharing an arxiv_id are equal in every payload field, and no two
\* ids give the same sort key <date>#<id>), any two item writes to the same
\* (PK, SK) carry identical content, so the final table is the starting
\* table with every written key holding the one item written to it, the
\* same for every order of the records and every interleaving of the writes.
\* Two versions of one id in a file write different items to PAPER#<id>/A
\* and the later one stays.
C14_OrderIndependent ==
    [][ (phase = "loading" /\ phase' # "loading" /\ NoConflictingRecords(input)) =>
          LET ws == WritesOf(input)
          IN  /\ \A i, j \in 1..Len(ws) : SameKey(ws[i], ws[j]) => ws[i] = ws[j]
              /\ store' = { x \in StartOfRun' : \A i \in 1..Len(ws) : ~SameKey(x, ws[i]) }
                          \cup Range(ws)
              /\ \A f \in RecordOrders(Len(input)) :
                    store' = WriteAll(StartOfRun',
                                      SelectSeq([i \in 1..Len(input) |-> input[f[i]]],
                                                LAMBDA p : ~MissingField(p))) ]_vars

\* two papers with different ids, one of which puts twice under the same
\* key, loaded over a table that holds some of their keys
C14_Witness ==
    /\ phase = "done"
    /\ resp = NoResponse
    /\ Len(input) = 2
    /\ NoConflictingRecords(input)
    /\ rec_arxiv_id(input[1]) # rec_arxiv_id(input[2])
    /\ passes_validation(input[1]) /\ passes_validation(input[2])
    /\ \E i, j \in 1..Len(WritesOf(input)) :
          i # j /\ SameKey(WritesOf(input)[i], WritesOf(input)[j])
    /\ \E x \in StartOfRun : \E i \in 1..Len(WritesOf(input)) : SameKey(x, WritesOf(input)[i])

\* a table holding the PAPER# item of a record but not all of its items
PartialProjection(table, p) ==
    /\ paper_item(p) \in table
    /\ \E i \in 1..Len(item_writes(p)) : item_writes(p)[i] \notin table

\* C15: the puts of one paper are not atomic as a group, so an interrupted
\* load can leave part of a paper's items in the table; a complete load of
\* the same input after the interruptions leaves the table exactly as one
\* uninterrupted load from the table before the first try would have.
C15_ReloadRepairs ==
    [][ (phase = "loading" /\ phase' \in { "done", "failed" } /\ attempt.interrupts > 0) =>
          store' = WriteAll(attempt.before, SelectSeq(input, LAMBDA p : ~MissingField(p))) ]_vars

\* a load was interrupted between the puts of one paper, leaving a partial
\* projection, and the same file was then loaded completely
C15_Witness ==
    /\ phase = "done"
    /\ attempt.interrupts > 0
    /\ \E i \in 1..Len(input) :
          /\ passes_validation(input[i])
          /\ PartialProjection(attempt.partial, input[i])
          /\ ~PartialProjection(store, input[i])
    /\ attempt.partial # attempt.before
    /\ attempt.partial # store

\* the query value of limit as a number, 20 when absent
HttpLimit == int(limit_text(http.request))

\* the segment after the route prefix, unescaped
HttpSegment(prefix) == unquote(SubSeq(http.request.path, Len(prefix) + 1, Len(http.request.path)))

\* C16: each of the five GET routes dispatches to its own query operation
\* and returns that operation's result list; a request missing a required
\* parameter gets 400, a get-by-id without a match 404, and an unhandled
\* failure 500 with the failure message.
C16_HttpRoutes ==
    http # NoHttp =>
        \E sv \in Services :
        LET req == http.request
            status == http.response.status
            body == http.response.body
            Returns(out) ==
                IF out.query_type = "raised"
                THEN status = 500 /\ body = ErrorBody(out.message)
                ELSE status = 200 /\ body.papers = out.results
        IN  IF req.path = <<"/","p","a","p","e","r","s","/","r","e","c","e","n","t">>
            THEN IF req.category = << >>
                 THEN status = 400 \/ (status = 500 /\ ~IsIntLiteral(limit_text(req)))
                 ELSE IF ~IsIntLiteral(limit_text(req))
                 THEN status = 500 /\ body = ErrorBody(IntError(limit_text(req)))
                 ELSE Returns(query_recent_in_category(Table(sv), req.category, HttpLimit))
            ELSE IF req.path = <<"/","p","a","p","e","r","s","/","s","e","a","r","c","h">>
            THEN IF req.category = << >> \/ req.start = << >> \/ req.end = << >>
                 THEN status = 400
                 ELSE Returns(query_papers_in_date_range(Table(sv), req.category,
                                                         req.start, req.end))
            ELSE IF StartsWith(req.path, <<"/","p","a","p","e","r","s","/","a","u","t","h","o","r","/">>)
            THEN Returns(query_papers_by_author(Table(sv), HttpSegment(<<"/","p","a","p","e","r","s","/","a","u","t","h","o","r","/">>)))
            ELSE IF StartsWith(req.path, <<"/","p","a","p","e","r","s","/","k","e","y","w","o","r","d","/">>)
            THEN IF ~IsIntLiteral(limit_text(req))
                 THEN status = 500 /\ body = ErrorBody(IntError(limit_text(req)))
                 ELSE Returns(query_papers_by_keyword(Table(sv),
                                                      HttpSegment(<<"/","p","a","p","e","r","s","/","k","e","y","w","o","r","d","/">>),
                                                      HttpLimit))
            ELSE IF StartsWith(req.path, <<"/","p","a","p","e","r","s","/">>) /\ count(req.path, "/") = 2
            THEN LET found == get_paper_by_id(Table(sv), HttpSegment(<<"/","p","a","p","e","r","s","/">>))
                 IN  IF found.query_type = "raised"
                     THEN status = 500 /\ body = ErrorBody(found.message)
                     ELSE IF found.results = << >> THEN status = 404
                     ELSE status = 200 /\ << body >> = found.results
            ELSE status = 404

\* the payload fields of a stored item
Payload(x) ==
    << x.arxiv_id, x.title, x.authors, x.abstract, x.categories, x.keywords, x.published >>

\* the items the category, author and keyword lookups read
IsAccessItem(x) ==
    \/ StartsWith(x.PK, <<"C","A","T","E","G","O","R","Y","#">>)
    \/ StartsWith(x.PK, <<"A","U","T","H","O","R","#">>)
    \/ StartsWith(x.PK, <<"K","E","Y","W","O","R","D","#">>)

\* C17: after any sequence of loads every CATEGORY#, AUTHOR# and KEYWORD#
\* item stored for an arxiv_id has the same payload as the PAPER# item of
\* that id: no item of an earlier version of the record is left.
C17_NoStaleItems ==
    phase # "loading" =>
        \A x \in store :
            IsAccessItem(x) =>
                \A y \in store :
                    y.PK = <<"P","A","P","E","R","#">> \o x.arxiv_id => Payload(x) = Payload(y)

====
